---- MODULE Spec2Model ----
(***************************************************************************)
(* OpenMemX memory store: the episodic store (SQLite table Interaction),   *)
(* the vector index (LanceDB table master_vectors), the surprise scorer,   *)
(* the consolidation/pruning policy, the knowledge graph (SQLite tables    *)
(* KnowledgeNode and KnowledgeEdge), the conversation registry, the        *)
(* snapshot manager and the log ingester, as implemented by                *)
(* src/openmemx/memory_engine.py, core_logic.py, mcp_server.py and         *)
(* ingestion.py.                                                           *)
(*                                                                         *)
(* Scores and cosine similarities are fixed-point numbers in hundredths:   *)
(* One = 100 stands for 1.0.  The embedding provider is a fixed table of   *)
(* integer vectors whose norms are integers, so that every similarity the  *)
(* model computes is exact.                                                *)
(*                                                                         *)
(* Each component has its own specification over the same variables:       *)
(* Spec, SpecReliable, SpecIndexFails and SpecOrphan (the two stores, one  *)
(* server process: with every failure, with none, with those of the        *)
(* vector index, and the latter from stores that hold an orphan),          *)
(* SpecConcurrent (concurrent ingests), SpecNovelty (an ingest held up     *)
(* next to others), SpecScorer and SpecZeroNorm (the scorer alone),        *)
(* SpecGraph and SpecGraphConcurrent (graph mutation), SpecTraverse (graph *)
(* traversal), SpecRegistry, SpecRegistryProcesses, SpecRegistryShared and *)
(* SpecRegistryTorn (conversation ids: one process, several processes in   *)
(* turn, several at once, and several that may die inside a save),         *)
(* SpecSnapshot and SpecSnapshotShared (the git                            *)
(* snapshots), SpecEngine (the engine handle), SpecAutoIngest (the tool    *)
(* retrieve_memory), SpecScan (the log ingester of ingestion.py) and       *)
(* SpecConsolidate (consolidation next to a graph).                        *)
(***************************************************************************)
EXTENDS Integers, Sequences, FiniteSets, TLC

(***************************************************************************)
(* Bounds of the model.                                                    *)
(***************************************************************************)
\* Number of interactions that may be committed in one behaviour.
MaxIngests == 3
\* Largest value of the wall clock that stamps interactions.
MaxClock == 1

(***************************************************************************)
(* Program constants.                                                      *)
(***************************************************************************)
\* 1.0 in hundredths.
One == 100
\* threshold=0.1 of prune_interactions, as consolidate_memory passes it.
PruneThreshold == 10
\* surprise_score > 0.5 selects the promotion candidates.
PromoteThreshold == 50
\* retrieve_episodic(conversation_id, limit=50) in ingest_interaction.
HistoryLimit == 50
\* retrieve_episodic(conversation_id, limit=100) in consolidate_memory.
ConsolidateLimit == 100

\* The server process whose tool calls run one at a time (a single event
\* loop: no tool body awaits), and the callers of the engine in general.
Callers == {"c1", "c2"}
Server == {"c1"}

Conversations == {"s1", "s2"}
Roles == {"user"}
Contents == {"sky", "anti"}

(***************************************************************************)
(* The embedding provider (SentenceTransformer.encode): text -> vector.    *)
(* "sky2" is a near-duplicate of "sky" (cosine 0.96), "np" is orthogonal   *)
(* to "sky" and "anti" points away from it (cosine -1.0); "void" is a text *)
(* that the provider maps to the zero vector.  Contents holds the texts    *)
(* the callers ingest.                                                     *)
(***************************************************************************)
Embed(content) ==
    CASE content = "sky"  -> <<4, 3>>
      [] content = "sky2" -> <<3, 4>>
      [] content = "np"   -> <<-3, 4>>
      [] content = "anti" -> <<-4, -3>>
      [] content = ""     -> <<0, 5>>
      [] content = "void" -> <<0, 0>>
      [] content = "Memory retrieval: ..." -> <<5, 0>>

Dot(u, v) == u[1] * v[1] + u[2] * v[2]

\* np.linalg.norm: the Euclidean norm (exact for the vectors of Embed).
Norm(v) == CHOOSE n \in 0..Dot(v, v) : n * n = Dot(v, v)

\* The floating-point value nan, which is no number of the model.
NaN == -1000

\* np.dot(h, new) / (norm(h) * norm(new)), in hundredths; 0.0 / 0.0 is nan
\* (numpy warns and goes on).
CosineSimilarity(h, new) ==
    IF Norm(h) * Norm(new) = 0
    THEN NaN
    ELSE (One * Dot(h, new)) \div (Norm(h) * Norm(new))

MaxOf(S) == CHOOSE m \in S : \A x \in S : x <= m

\* np.max(similarities): nan as soon as one similarity is nan.
Max(similarities) ==
    IF NaN \in similarities THEN NaN ELSE MaxOf(similarities)

\* 1.0 - max_sim in floating point: nan when max_sim is.
OneMinus(max_sim) == IF max_sim = NaN THEN NaN ELSE One - max_sim

\* calculate_surprise without its prior: an empty history scores the
\* column's default, 0.0.
calculate_surprise_no_prior(new_content, historical_contents) ==
    IF historical_contents = {}
    THEN 0
    ELSE One - MaxOf({CosineSimilarity(Embed(h), Embed(new_content)) :
                        h \in historical_contents})

\* MemoryLogic.calculate_surprise, with the historical contents as the set
\* of their values (the maximum does not depend on order or repetition).
calculate_surprise(new_content, historical_contents) ==
    IF historical_contents = {}
    THEN One
    ELSE OneMinus(Max({CosineSimilarity(Embed(h), Embed(new_content)) :
                          h \in historical_contents}))

VARIABLES
    interactions,    \* SQLite table Interaction: a set of rows
    table_exists,    \* whether the LanceDB table master_vectors exists
    master_vectors,  \* its rows, in insertion order
    clock,           \* datetime.now(), as a logical clock
    pc,              \* each caller's position in the operation it runs
    loc,             \* each caller's local variables (and, as history,
                     \* the two stores as they were when its call began)
    result,          \* what each caller's last tool call returned
    ingests,         \* history: how many interactions were committed
    assigned,        \* history: the ids the commits assigned
    returned,        \* history: the ids engine.ingest_interaction returned
    scored,          \* the scorer alone: the contents scored so far, each
                     \* with the score it got, in order
    nodes,           \* SQLite table KnowledgeNode: a set of rows
    edges,           \* SQLite table KnowledgeEdge: a set of rows
    gpc,             \* each caller's position in the graph operation it runs
    gloc,            \* each caller's local variables in that operation
    gresult,         \* what each caller's last graph tool call returned
    node_calls,      \* history: how many add_knowledge_node calls began
    registry,        \* the file project_registry.json: project -> id
    current_conversation_id,  \* each process's global _current_conversation_id
    cwd,             \* each process's working directory
    rpc,             \* each process's position in a registry operation
    rloc,            \* the registry it loaded and changed, not yet saved
    incarnation,     \* history: how often each process was started again
    ids_made,        \* history: how many conversation ids were generated
    resolved,        \* history: per project, what get_conversation_id
                     \* returned since the project's last reset, as pairs
                     \* <<id, incarnation of the process>>
    git_dir,         \* whether the root holds a .git directory
    commits,         \* the commit objects of the repository, in the order
                     \* of their creation; a commit's id is its position
    head,            \* the commit HEAD's branch points to, 0 when unborn
    index,           \* the tree the index file on disk stages
    worktree,        \* the files under the root, as a version number
    spc,             \* each process's position in engine.snapshot
    sloc,            \* each process's local variables in engine.snapshot
    sresult,         \* what each process's last snapshot call reported
    constructed,     \* whether each process holds a MemoryEngine
    engine,          \* the global _engine of the server process: the
                     \* instance it holds, 0 for None
    engines_made,    \* history: how many MemoryEngine were constructed
    handle,          \* what get_engine() returned to each task of the
                     \* server process
    auto_ingest,     \* config["auto_ingest"]: enabled, log_queries,
                     \* log_responses
    retrieved,       \* history: the last call of the tool retrieve_memory
    log_files,       \* the log file of each external source: its
                     \* modification time and its records
    activities,      \* what the last scan_all returned
    scan_hours       \* the hours of the last scan_all, 0 before it

store_vars == <<interactions, table_exists, master_vectors, clock, pc, loc,
                result, ingests, assigned, returned>>

graph_vars == <<nodes, edges, gpc, gloc, gresult, node_calls>>

registry_vars == <<registry, current_conversation_id, cwd, rpc, rloc,
                   incarnation, ids_made, resolved>>

snapshot_vars == <<git_dir, commits, head, index, worktree, spc, sloc,
                   sresult, constructed>>

engine_vars == <<engine, engines_made, handle>>

auto_vars == <<auto_ingest, retrieved>>

scan_vars == <<log_files, activities, scan_hours>>

\* What the calls on the two stores leave alone.
not_store_vars == <<scored, graph_vars, registry_vars, snapshot_vars,
                    engine_vars, auto_vars, scan_vars>>

\* What the calls on the knowledge graph leave alone.
not_graph_vars == <<store_vars, scored, registry_vars, snapshot_vars,
                    engine_vars, auto_vars, scan_vars>>

\* What the conversation registry leaves alone.
not_registry_vars == <<store_vars, scored, graph_vars, snapshot_vars,
                       engine_vars, auto_vars, scan_vars>>

\* What the snapshots leave alone.
not_snapshot_vars == <<store_vars, scored, graph_vars, registry_vars,
                       engine_vars, auto_vars, scan_vars>>

vars == <<store_vars, scored, graph_vars, registry_vars, snapshot_vars,
          engine_vars, auto_vars, scan_vars>>

NoLoc == [conversation_id |-> "", role |-> "", content |-> "",
          surprise_score |-> 0, timestamp |-> 0, interaction_id |-> 0,
          ids_to_prune |-> {}, high_surprise |-> {},
          start_interactions |-> {}, start_vectors |-> <<>>]

NoResult == [tool |-> "", kind |-> "none", error |-> "", conversation_id |-> "",
             interaction_id |-> 0, num_pruned |-> 0,
             sql_removed |-> {}, vec_removed |-> {}, high_surprise |-> {}]

\* None, for a node that a select did not find.
NoNode == [id |-> 0, entity |-> "", description |-> <<>>, node_data |-> <<>>]

NoGloc == [entity |-> "", description |-> "", node_data |-> <<>>,
           existing |-> NoNode,
           source_entity |-> "", target_entity |-> "", relationship |-> "",
           source |-> NoNode, target |-> NoNode,
           max_depth |-> 0, queue |-> <<>>, visited |-> {}, results |-> <<>>,
           current_node |-> NoNode, depth |-> 0, pending |-> <<>>]

NoGresult == [tool |-> "", kind |-> "none", id |-> 0,
              start_entity |-> "", results |-> <<>>]

Projects == {"pA", "pB"}

\* None, for a _current_conversation_id that is not set.
NoId == 0

\* config["external_sources"] of the log ingester: a JSON-lines source
\* whose mapping names timestamp, content and role, and a text source.
Sources == <<[name |-> "MockAgent", format |-> "jsonl"],
             [name |-> "OpenWork", format |-> "text"]>>
SourceNames == {Sources[i].name : i \in DOMAIN Sources}
\* A log file nobody wrote to.
NoFile == [mtime |-> 0, records |-> <<>>]

\* DEFAULT_CONFIG["auto_ingest"]
DefaultAutoIngest ==
    [enabled |-> TRUE, log_queries |-> TRUE, log_responses |-> TRUE]
\* No call of retrieve_memory yet.
NoRetrieved == [conversation_id |-> "", query |-> "", kind |-> "none",
                enabled |-> FALSE, log_queries |-> FALSE, logged |-> "none"]

\* The tasks of the server process: the tool calls the event loop runs.
Tasks == {"t1", "t2", "t3"}
\* _engine = None
NoEngine == 0
\* get_engine() raised.
Raised == -1

\* repo.head raises while the branch has no commit.
Unborn == 0
\* The local variables of engine.snapshot outside a call; initial tells
\* the call that MemoryEngine.__init__ makes from the others.
NoSloc == [message |-> "", tree |-> 0, parent |-> <<>>, initial |-> FALSE]

\* The two stores before the first ingest.
InitStores ==
    /\ interactions = {}
    /\ table_exists = FALSE
    /\ master_vectors = <<>>
    /\ assigned = {}
    /\ returned = {}

\* The state of everything but the two stores and the two tables of the
\* knowledge graph.
InitOthers ==
    /\ clock = 0
    /\ pc = [p \in Callers |-> "idle"]
    /\ loc = [p \in Callers |-> NoLoc]
    /\ result = [p \in Callers |-> NoResult]
    /\ ingests = 0
    /\ scored = <<>>
    /\ gpc = [p \in Callers |-> "idle"]
    /\ gloc = [p \in Callers |-> NoGloc]
    /\ gresult = [p \in Callers |-> NoGresult]
    /\ node_calls = 0
    /\ registry = <<>>
    /\ current_conversation_id = [p \in Callers |-> NoId]
    /\ cwd = [p \in Callers |-> "pA"]
    /\ rpc = [p \in Callers |-> "idle"]
    /\ rloc = [p \in Callers |-> <<>>]
    /\ incarnation = [p \in Callers |-> 0]
    /\ ids_made = 0
    /\ resolved = [project \in Projects |-> {}]
    /\ git_dir = FALSE
    /\ commits = <<>>
    /\ head = Unborn
    /\ index = 0
    /\ worktree = 0
    /\ spc = [p \in Callers |-> "idle"]
    /\ sloc = [p \in Callers |-> NoSloc]
    /\ sresult = [p \in Callers |-> "none"]
    /\ constructed = [p \in Callers |-> FALSE]
    /\ engine = NoEngine
    /\ engines_made = 0
    /\ handle = [t \in Tasks |-> NoEngine]
    /\ auto_ingest = DefaultAutoIngest
    /\ retrieved = NoRetrieved
    /\ log_files = [name \in SourceNames |-> NoFile]
    /\ activities = <<>>
    /\ scan_hours = 0

\* The state of everything but the two tables of the knowledge graph.
InitButGraph ==
    /\ InitStores
    /\ InitOthers

Init ==
    /\ InitButGraph
    /\ nodes = {}
    /\ edges = {}

(***************************************************************************)
(* The episodic store.                                                     *)
(***************************************************************************)
Ids(rows) == {r.id : r \in rows}

\* Interaction.id is an INTEGER PRIMARY KEY without AUTOINCREMENT: SQLite
\* assigns one more than the largest id currently in the table.
NextId == IF interactions = {} THEN 1 ELSE MaxOf(Ids(interactions)) + 1

\* Every row of the table, whatever its conversation.
AnyConversation(conversation_id) == interactions

OfConversation(conversation_id) ==
    {i \in interactions : i.conversation_id = conversation_id}

\* retrieve_episodic: ORDER BY timestamp DESC LIMIT limit.  The rows it may
\* return: the limit newest ones, rows of equal timestamp in any order.
retrieve_episodic(conversation_id, limit) ==
    LET rows == OfConversation(conversation_id)
        n == IF Cardinality(rows) < limit THEN Cardinality(rows) ELSE limit
    IN  {S \in SUBSET rows :
            /\ Cardinality(S) = n
            /\ \A a \in S : \A b \in rows \ S : a.timestamp >= b.timestamp}

\* retrieve_episodic as the list it returns: the rows of the conversation
\* sorted by timestamp, newest first, cut after limit rows.  SQL leaves the
\* order of rows of equal timestamp open, so every such order is a result.
retrieve_episodic_rows(conversation_id, limit) ==
    LET rows == OfConversation(conversation_id)
        sorted == {s \in [1..Cardinality(rows) -> rows] :
                      /\ \A i, j \in DOMAIN s : s[i] = s[j] => i = j
                      /\ \A i, j \in DOMAIN s :
                            i < j => s[i].timestamp >= s[j].timestamp}
        n == IF Cardinality(rows) < limit THEN Cardinality(rows) ELSE limit
    IN  {SubSeq(s, 1, n) : s \in sorted}

\* A select that takes every row of the conversation.
ToPruneAll(conversation_id, threshold) ==
    {i \in interactions : i.conversation_id = conversation_id}

\* The select with its comparison inverted.
ToPruneInverted(conversation_id, threshold) ==
    {i \in interactions : /\ i.conversation_id = conversation_id
                          /\ i.surprise_score > threshold}

\* The select of prune_interactions.
ToPrune(conversation_id, threshold) ==
    {i \in interactions : /\ i.conversation_id = conversation_id
                          /\ i.surprise_score < threshold}

(***************************************************************************)
(* The vector index.                                                       *)
(***************************************************************************)
\* str(interaction_id): the vector index keys its rows by the decimal text.
Str(n) == ToString(n)

VectorIds == {master_vectors[k].id : k \in DOMAIN master_vectors}

\* The data_packet of ingest_interaction (the vector is Embed(content)).
DataPacket(interaction_id, conversation_id, role, content) ==
    [id |-> Str(interaction_id), content |-> content, role |-> role,
     conversation_id |-> conversation_id]

\* The squared Euclidean distance of two vectors: the metric of a LanceDB
\* search that names none.
Distance(u, v) ==
    (u[1] - v[1]) * (u[1] - v[1]) + (u[2] - v[2]) * (u[2] - v[2])

\* The rows of the master table in every order that puts nearer rows first
\* (farther == FALSE) or farther rows first (farther == TRUE).
Ranked(query, farther) ==
    LET n == Len(master_vectors)
        d(k) == Distance(Embed(master_vectors[k].content), Embed(query))
    IN  {[k \in 1..n |-> master_vectors[perm[k]]] :
            perm \in {f \in [1..n -> 1..n] :
                        /\ \A i, j \in 1..n : f[i] = f[j] => i = j
                        /\ \A i, j \in 1..n :
                              i < j => IF farther THEN d(f[i]) >= d(f[j])
                                                  ELSE d(f[i]) <= d(f[j])}}

\* A search that returns the limit farthest rows.
search_farthest(query, limit) ==
    LET n == IF Len(master_vectors) < limit THEN Len(master_vectors) ELSE limit
    IN  {SubSeq(r, 1, n) : r \in Ranked(query, TRUE)}

\* table.search(embedding).limit(limit).to_list() of retrieve_memory: the
\* limit rows nearest to the query's embedding, nearest first; rows at the
\* same distance come in any order.
search(query, limit) ==
    LET n == IF Len(master_vectors) < limit THEN Len(master_vectors) ELSE limit
    IN  {SubSeq(r, 1, n) : r \in Ranked(query, FALSE)}

\* A delete whose filter names the ids as numbers: it matches no row, the
\* ids of the table being text.
DeleteWhereUnquoted(rows, ids) == rows

RECURSIVE DeleteWhere(_, _)
\* table.delete("id IN (...)"): the rows that stay, in order.
DeleteWhere(rows, ids) ==
    IF rows = <<>> THEN <<>>
    ELSE IF Head(rows).id \in ids
         THEN DeleteWhere(Tail(rows), ids)
         ELSE <<Head(rows)>> \o DeleteWhere(Tail(rows), ids)

(***************************************************************************)
(* How a tool call ends.                                                   *)
(***************************************************************************)
Return(p, r) ==
    /\ pc' = [pc EXCEPT ![p] = "idle"]
    /\ loc' = [loc EXCEPT ![p] = NoLoc]
    /\ result' = [result EXCEPT ![p] = r]

\* The call raises to its caller: nothing is returned.  The record keeps
\* the error and the id the call had committed before it failed (0: none).
Raise(p, tool, conversation_id, error) ==
    Return(p, [NoResult EXCEPT !.tool = tool, !.kind = "raised",
                               !.error = error,
                               !.conversation_id = conversation_id,
                               !.interaction_id = loc[p].interaction_id])

(***************************************************************************)
(* Tool ingest_interaction -> MemoryEngine.ingest_interaction.  The tool   *)
(* catches nothing: what the engine raises, the tool raises.               *)
(***************************************************************************)
\* Steps 1 and 2: read the history, compute the surprise.
IngestScore(p) ==
    /\ pc[p] = "idle"
    /\ ingests < MaxIngests
    /\ \E conversation_id \in Conversations, role \in Roles, content \in Contents :
         \E history \in retrieve_episodic(conversation_id, HistoryLimit) :
            /\ pc' = [pc EXCEPT ![p] = "ingest_store"]
            /\ loc' = [loc EXCEPT ![p] =
                  [NoLoc EXCEPT !.conversation_id = conversation_id,
                                !.role = role,
                                !.start_interactions = interactions,
                                !.start_vectors = master_vectors,
                                !.content = content,
                                !.surprise_score =
                                    calculate_surprise(content,
                                        {h.content : h \in history})]]
            /\ result' = [result EXCEPT ![p] = NoResult]
    /\ UNCHANGED <<interactions, table_exists, master_vectors, clock,
                   ingests, assigned, returned>>
    /\ UNCHANGED not_store_vars

\* The embedding provider fails inside calculate_surprise, which calls it
\* only when the history is not empty.
IngestScoreFails(p) ==
    /\ pc[p] = "idle"
    /\ ingests < MaxIngests
    /\ \E conversation_id \in Conversations :
         /\ OfConversation(conversation_id) # {}
         /\ Raise(p, "ingest_interaction", conversation_id, "EmbeddingFailure")
    /\ UNCHANGED <<interactions, table_exists, master_vectors, clock,
                   ingests, assigned, returned>>
    /\ UNCHANGED not_store_vars

\* Step 3: the row is built (its timestamp is the clock's reading), added
\* and committed; SQLite assigns the id.
IngestStore(p) ==
    /\ pc[p] = "ingest_store"
    /\ \E now \in {clock, clock + 1} :
         /\ now <= MaxClock
         /\ clock' = now
         /\ interactions' = interactions \cup
               {[id |-> NextId,
                 timestamp |-> now,
                 role |-> loc[p].role,
                 content |-> loc[p].content,
                 surprise_score |-> loc[p].surprise_score,
                 conversation_id |-> loc[p].conversation_id]}
    /\ ingests' = ingests + 1
    /\ assigned' = assigned \cup {NextId}
    /\ pc' = [pc EXCEPT ![p] = "ingest_index"]
    /\ loc' = [loc EXCEPT ![p].interaction_id = NextId]
    /\ UNCHANGED <<table_exists, master_vectors, result, returned>>
    /\ UNCHANGED not_store_vars

\* The commit fails.
IngestStoreFails(p) ==
    /\ pc[p] = "ingest_store"
    /\ Raise(p, "ingest_interaction", loc[p].conversation_id, "StorageFailure")
    /\ UNCHANGED <<interactions, table_exists, master_vectors, clock,
                   ingests, assigned, returned>>
    /\ UNCHANGED not_store_vars

\* Step 4: the content is embedded and the packet is written to the master
\* table, which is created with the packet when it cannot be opened.
IngestIndex(p) ==
    /\ pc[p] = "ingest_index"
    /\ table_exists' = TRUE
    /\ master_vectors' =
          IF table_exists
          THEN Append(master_vectors,
                      DataPacket(loc[p].interaction_id, loc[p].conversation_id,
                                 loc[p].role, loc[p].content))
          ELSE <<DataPacket(loc[p].interaction_id, loc[p].conversation_id,
                            loc[p].role, loc[p].content)>>
    /\ returned' = returned \cup {loc[p].interaction_id}
    /\ Return(p, [NoResult EXCEPT !.tool = "ingest_interaction",
                                  !.kind = "ok",
                                  !.conversation_id = loc[p].conversation_id,
                                  !.interaction_id = loc[p].interaction_id])
    /\ UNCHANGED <<interactions, clock, ingests, assigned>>
    /\ UNCHANGED not_store_vars

\* The embedding provider fails on the content (after the commit).
IngestEmbedFails(p) ==
    /\ pc[p] = "ingest_index"
    /\ Raise(p, "ingest_interaction", loc[p].conversation_id, "EmbeddingFailure")
    /\ UNCHANGED <<interactions, table_exists, master_vectors, clock,
                   ingests, assigned, returned>>
    /\ UNCHANGED not_store_vars

\* create_table or table.add fails: nothing catches it.
IngestIndexFails(p) ==
    /\ pc[p] = "ingest_index"
    /\ Raise(p, "ingest_interaction", loc[p].conversation_id, "IndexFailure")
    /\ UNCHANGED <<interactions, table_exists, master_vectors, clock,
                   ingests, assigned, returned>>
    /\ UNCHANGED not_store_vars

(***************************************************************************)
(* Tool consolidate_memory -> MemoryEngine.prune_interactions.  Every      *)
(* exception inside the tool is caught and returned as a failure text.     *)
(***************************************************************************)
\* The interactions below the promotion threshold.
HighSurpriseBelow(history) ==
    {h \in history : h.surprise_score < PromoteThreshold}

\* high_surprise = [h for h in history if h.surprise_score > 0.5]
HighSurprise(history) ==
    {h \in history : h.surprise_score > PromoteThreshold}

\* Step 1: the promotion candidates among the 100 most recent interactions.
ConsolidateRead(p) ==
    /\ pc[p] = "idle"
    /\ \E conversation_id \in Conversations :
         \E history \in retrieve_episodic(conversation_id, ConsolidateLimit) :
            /\ pc' = [pc EXCEPT ![p] = "prune_store"]
            /\ loc' = [loc EXCEPT ![p] =
                  [NoLoc EXCEPT !.conversation_id = conversation_id,
                                !.start_interactions = interactions,
                                !.start_vectors = master_vectors,
                                !.high_surprise = HighSurprise(history)]]
            /\ result' = [result EXCEPT ![p] = NoResult]
    /\ UNCHANGED <<interactions, table_exists, master_vectors, clock,
                   ingests, assigned, returned>>
    /\ UNCHANGED not_store_vars

\* prune_interactions, steps 1 and 2: select the rows below the threshold,
\* return 0 when there are none, else delete them and commit.
PruneStore(p) ==
    /\ pc[p] = "prune_store"
    /\ LET to_prune == ToPrune(loc[p].conversation_id, PruneThreshold)
       IN  \/ /\ to_prune = {}
              /\ Return(p, [NoResult EXCEPT !.tool = "consolidate_memory",
                                            !.kind = "ok",
                                            !.conversation_id = loc[p].conversation_id,
                                            !.high_surprise = loc[p].high_surprise])
              /\ UNCHANGED interactions
           \/ /\ to_prune # {}
              /\ interactions' = interactions \ to_prune
              /\ pc' = [pc EXCEPT ![p] = "prune_index"]
              /\ loc' = [loc EXCEPT ![p].ids_to_prune = {Str(i.id) : i \in to_prune}]
              /\ UNCHANGED result
    /\ UNCHANGED <<table_exists, master_vectors, clock, ingests, assigned, returned>>
    /\ UNCHANGED not_store_vars

\* The session fails (the select, or the delete's commit):
\* consolidate_memory catches it and returns "Consolidation failed".
PruneStoreFails(p) ==
    /\ pc[p] = "prune_store"
    /\ Return(p, [NoResult EXCEPT !.tool = "consolidate_memory",
                                  !.kind = "failure",
                                  !.error = "StorageFailure",
                                  !.conversation_id = loc[p].conversation_id])
    /\ UNCHANGED <<interactions, table_exists, master_vectors, clock,
                   ingests, assigned, returned>>
    /\ UNCHANGED not_store_vars

\* prune_interactions, step 3: delete the same ids from the master table.
PruneIndex(p) ==
    /\ pc[p] = "prune_index"
    /\ table_exists
    /\ master_vectors' = DeleteWhere(master_vectors, loc[p].ids_to_prune)
    /\ Return(p, [NoResult EXCEPT !.tool = "consolidate_memory",
                                  !.kind = "ok",
                                  !.conversation_id = loc[p].conversation_id,
                                  !.num_pruned = Cardinality(loc[p].ids_to_prune),
                                  !.sql_removed = loc[p].ids_to_prune,
                                  !.vec_removed = loc[p].ids_to_prune \cap VectorIds,
                                  !.high_surprise = loc[p].high_surprise])
    /\ UNCHANGED <<interactions, table_exists, clock, ingests, assigned, returned>>
    /\ UNCHANGED not_store_vars

\* A failure of the index that takes the committed delete back and is
\* reported as a failure.
PruneIndexFailsUndoes(p) ==
    /\ pc[p] = "prune_index"
    /\ interactions' = loc[p].start_interactions
    /\ Return(p, [NoResult EXCEPT !.tool = "consolidate_memory",
                                  !.kind = "failure",
                                  !.error = "IndexFailure",
                                  !.conversation_id = loc[p].conversation_id])
    /\ UNCHANGED <<table_exists, master_vectors, clock,
                   ingests, assigned, returned>>
    /\ UNCHANGED not_store_vars

\* The master table cannot be opened (it does not exist, or the index is
\* unreachable) or the delete fails: the exception is caught, a warning is
\* printed and the count is returned all the same.
PruneIndexFails(p) ==
    /\ pc[p] = "prune_index"
    /\ Return(p, [NoResult EXCEPT !.tool = "consolidate_memory",
                                  !.kind = "ok",
                                  !.error = "IndexFailure",
                                  !.conversation_id = loc[p].conversation_id,
                                  !.num_pruned = Cardinality(loc[p].ids_to_prune),
                                  !.sql_removed = loc[p].ids_to_prune,
                                  !.high_surprise = loc[p].high_surprise])
    /\ UNCHANGED <<interactions, table_exists, master_vectors, clock,
                   ingests, assigned, returned>>
    /\ UNCHANGED not_store_vars

(***************************************************************************)
(* The process dies in the middle of a call and is started again: the call *)
(* returns nothing and what it had committed stays.                        *)
(***************************************************************************)
Crash(p) ==
    /\ pc[p] # "idle"
    /\ Return(p, NoResult)
    /\ UNCHANGED <<interactions, table_exists, master_vectors, clock,
                   ingests, assigned, returned>>
    /\ UNCHANGED not_store_vars

(***************************************************************************)
(* Specifications.  The server process runs its tool calls one at a time   *)
(* (no tool body awaits), so one caller steps.  Reliable is the system in  *)
(* which no step fails and no process dies; Spec adds the failures of the  *)
(* embedding provider, of the stores and of the process.                   *)
(***************************************************************************)
StepReliable(p) ==
    \/ IngestScore(p)
    \/ IngestStore(p)
    \/ IngestIndex(p)
    \/ ConsolidateRead(p)
    \/ PruneStore(p)
    \/ PruneIndex(p)

StepFails(p) ==
    \/ IngestScoreFails(p)
    \/ IngestStoreFails(p)
    \/ IngestEmbedFails(p)
    \/ IngestIndexFails(p)
    \/ PruneStoreFails(p)
    \/ PruneIndexFails(p)
    \/ Crash(p)

NextReliable == \E p \in Server : StepReliable(p)

Next == \E p \in Server : StepReliable(p) \/ StepFails(p)

Spec == Init /\ [][Next]_vars

SpecReliable == Init /\ [][NextReliable]_vars

\* The system in which only the vector index fails: on the write of an
\* ingest and on the delete of a pruning.
NextIndexFails ==
    \E p \in Server :
        \/ StepReliable(p)
        \/ IngestIndexFails(p)
        \/ PruneIndexFails(p)

SpecIndexFails == Init /\ [][NextIndexFails]_vars

\* The stores some time into their life: each conversation holds its first
\* interaction, and a repetition in conversation "s2", which got id 3, was
\* pruned while the delete on the vector index failed, so that its vector
\* record is still there.
InitOrphan ==
    /\ interactions =
          {[id |-> 1, timestamp |-> 0, role |-> "user", content |-> "sky",
            surprise_score |-> One, conversation_id |-> "s1"],
           [id |-> 2, timestamp |-> 0, role |-> "user", content |-> "sky",
            surprise_score |-> One, conversation_id |-> "s2"]}
    /\ table_exists = TRUE
    /\ master_vectors = <<DataPacket(1, "s1", "user", "sky"),
                          DataPacket(2, "s2", "user", "sky"),
                          DataPacket(3, "s2", "user", "sky")>>
    /\ assigned = {1, 2, 3}
    /\ returned = {1, 2, 3}
    /\ InitOthers
    /\ nodes = {}
    /\ edges = {}

SpecOrphan == InitOrphan /\ [][NextIndexFails]_vars

(***************************************************************************)
(* Concurrent callers of ingest_interaction: processes (or threads) that   *)
(* share the two stores.  Step 3 of the ingest is then two steps: the      *)
(* Interaction object is built, which reads the clock (the timestamp's     *)
(* default_factory), and later the session commits it.                     *)
(***************************************************************************)
\* Step 3, first half: Interaction(...) is built and stamped.
IngestBuild(p) ==
    /\ pc[p] = "ingest_store"
    /\ \E now \in {clock, clock + 1} :
         /\ now <= MaxClock
         /\ clock' = now
         /\ loc' = [loc EXCEPT ![p].timestamp = now]
    /\ pc' = [pc EXCEPT ![p] = "ingest_commit"]
    /\ UNCHANGED <<interactions, table_exists, master_vectors, result,
                   ingests, assigned, returned>>
    /\ UNCHANGED not_store_vars

\* Step 3, second half: session.add, session.commit; SQLite assigns the id.
IngestCommit(p) ==
    /\ pc[p] = "ingest_commit"
    /\ interactions' = interactions \cup
          {[id |-> NextId,
            timestamp |-> loc[p].timestamp,
            role |-> loc[p].role,
            content |-> loc[p].content,
            surprise_score |-> loc[p].surprise_score,
            conversation_id |-> loc[p].conversation_id]}
    /\ ingests' = ingests + 1
    /\ assigned' = assigned \cup {NextId}
    /\ pc' = [pc EXCEPT ![p] = "ingest_index"]
    /\ loc' = [loc EXCEPT ![p].interaction_id = NextId]
    /\ UNCHANGED <<table_exists, master_vectors, clock, result, returned>>
    /\ UNCHANGED not_store_vars

NextConcurrent ==
    \E p \in Callers :
        \/ IngestScore(p)
        \/ IngestBuild(p)
        \/ IngestCommit(p)
        \/ IngestIndex(p)

SpecConcurrent == Init /\ [][NextConcurrent]_vars

(***************************************************************************)
(* Ingests next to a second process that begins an ingest and dies with    *)
(* the score it computed, before it stores anything: while it holds its    *)
(* score, the server's calls change the store and are scored in their      *)
(* turn.                                                                   *)
(***************************************************************************)
NextNovelty ==
    \/ \E p \in Server :
          \/ IngestScore(p)
          \/ IngestStore(p)
          \/ IngestIndex(p)
    \/ \E p \in Callers \ Server :
          \/ IngestScore(p)
          \/ Crash(p)

SpecNovelty == Init /\ [][NextNovelty]_vars

(***************************************************************************)
(* The scorer alone.  ingest_interaction scores each new content against   *)
(* the contents its conversation already holds; SpecScorer is that         *)
(* sequence of scores for one conversation, over every text the embedding  *)
(* provider knows and with nothing else going on.                          *)
(***************************************************************************)
\* How many contents are scored in one behaviour.
MaxScored == 4

Texts == {"sky", "sky2", "np", "anti"}

\* What a text is about: "sky" and "sky2" say the same thing in other
\* words.
Topic(content) == IF content \in {"sky", "sky2"} THEN "sky" ELSE content

\* ingest_interaction, steps 1 and 2, for the next content of the
\* conversation.
ScoreNext(content) ==
    /\ Len(scored) < MaxScored
    /\ scored' = Append(scored,
          [content |-> content,
           surprise_score |->
               calculate_surprise(content,
                   {scored[k].content : k \in DOMAIN scored})])
    /\ UNCHANGED <<store_vars, graph_vars, registry_vars, snapshot_vars,
                   engine_vars, auto_vars, scan_vars>>

NextScorer == \E content \in Texts : ScoreNext(content)

SpecScorer == Init /\ [][NextScorer]_vars

\* The scorer on conversations that also hold a text whose embedding is
\* the zero vector.
ZeroNormTexts == {"void"}

NextZeroNorm == \E content \in Texts \cup ZeroNormTexts : ScoreNext(content)

SpecZeroNorm == Init /\ [][NextZeroNorm]_vars

(***************************************************************************)
(* The knowledge graph: the SQLite tables KnowledgeNode and KnowledgeEdge. *)
(* A description is the sequence of its pieces, the separator "\n---\n"    *)
(* being the piece Separator; node_data is the dictionary that the JSON    *)
(* text of the column encodes, a function from keys to values.             *)
(***************************************************************************)
\* How many add_knowledge_node calls one behaviour makes.
MaxNodeCalls == 2
\* How many edges the graph gets.
MaxEdges == 2
\* The largest max_depth a traversal is asked for.
MaxDepth == 2

Entities == {"A", "B"}
\* An entity that no call adds.
Unknown == "Z"
Descriptions == {"d1", "d2"}
Relationships == {"uses"}
Separator == "---"

\* node_data=None, and the dictionaries the callers pass.
NoData == <<>>
NodeData == {NoData,
             [color |-> "red", size |-> "big"],
             [color |-> "blue"]}

NodeIds == {n.id : n \in nodes}

\* KnowledgeNode.id and KnowledgeEdge.id are INTEGER PRIMARY KEYs.
NextNodeId == IF nodes = {} THEN 1 ELSE MaxOf(NodeIds) + 1
NextEdgeId == IF edges = {} THEN 1 ELSE MaxOf({e.id : e \in edges}) + 1

\* select(KnowledgeNode).where(entity == ...).first(): the rows it may
\* return, NoNode when no row matches.
FirstNode(entity) ==
    IF \E n \in nodes : n.entity = entity
    THEN {n \in nodes : n.entity = entity}
    ELSE {NoNode}

\* A merge in which the stored values win.
MergeKeepOld(current_data, node_data) ==
    [k \in DOMAIN current_data \cup DOMAIN node_data |->
        IF k \in DOMAIN current_data THEN current_data[k] ELSE node_data[k]]

\* current_data.update(node_data).
Merge(current_data, node_data) ==
    [k \in DOMAIN current_data \cup DOMAIN node_data |->
        IF k \in DOMAIN node_data THEN node_data[k] ELSE current_data[k]]

\* add_knowledge_node, the select: does the entity exist?
AddNodeRead(p, entity, description, node_data) ==
    /\ gpc[p] = "idle"
    /\ node_calls < MaxNodeCalls
    /\ \E existing \in FirstNode(entity) :
         gloc' = [gloc EXCEPT ![p] =
                    [NoGloc EXCEPT !.entity = entity,
                                   !.description = description,
                                   !.node_data = node_data,
                                   !.existing = existing]]
    /\ gpc' = [gpc EXCEPT ![p] = "node_write"]
    /\ gresult' = [gresult EXCEPT ![p] = NoGresult]
    /\ node_calls' = node_calls + 1
    /\ UNCHANGED <<nodes, edges>>
    /\ UNCHANGED not_graph_vars

\* add_knowledge_node, the write and the commit.  An existing node gets the
\* description and the node_data computed from the row as it was read (the
\* UPDATE names only the columns whose value changed); otherwise a node is
\* inserted.
AddNodeWrite(p) ==
    /\ gpc[p] = "node_write"
    /\ LET existing == gloc[p].existing
           merged == IF gloc[p].node_data # NoData
                     THEN Merge(existing.node_data, gloc[p].node_data)
                     ELSE existing.node_data
       IN  IF existing # NoNode
           THEN /\ nodes' =
                     {IF n.id = existing.id
                      THEN [n EXCEPT
                              !.description =
                                  existing.description
                                      \o <<Separator, gloc[p].description>>,
                              !.node_data =
                                  IF merged = existing.node_data
                                  THEN n.node_data ELSE merged]
                      ELSE n : n \in nodes}
                /\ gresult' = [gresult EXCEPT ![p] =
                      [NoGresult EXCEPT !.tool = "add_knowledge_node",
                                        !.kind = "ok",
                                        !.id = existing.id]]
           ELSE /\ nodes' = nodes \cup
                     {[id |-> NextNodeId,
                       entity |-> gloc[p].entity,
                       description |-> <<gloc[p].description>>,
                       node_data |-> gloc[p].node_data]}
                /\ gresult' = [gresult EXCEPT ![p] =
                      [NoGresult EXCEPT !.tool = "add_knowledge_node",
                                        !.kind = "ok",
                                        !.id = NextNodeId]]
    /\ gpc' = [gpc EXCEPT ![p] = "idle"]
    /\ gloc' = [gloc EXCEPT ![p] = NoGloc]
    /\ UNCHANGED <<edges, node_calls>>
    /\ UNCHANGED not_graph_vars

\* An edge whose ends are exchanged.
NewEdgeReversed(source, target, relationship) ==
    [id |-> NextEdgeId, source_id |-> target.id, target_id |-> source.id,
     relationship |-> relationship, weight |-> One]

\* KnowledgeEdge(source_id=source.id, target_id=target.id, ...), weight 1.0.
NewEdge(source, target, relationship) ==
    [id |-> NextEdgeId, source_id |-> source.id, target_id |-> target.id,
     relationship |-> relationship, weight |-> One]

\* A test that lets an edge with one missing end through.
NotFoundBoth(source, target) == source = NoNode /\ target = NoNode

\* if not source or not target.
NotFound(source, target) == source = NoNode \/ target = NoNode

\* add_knowledge_edge, the two selects.
AddEdgeRead(p, source_entity, target_entity, relationship) ==
    /\ gpc[p] = "idle"
    /\ Cardinality(edges) < MaxEdges
    /\ \E source \in FirstNode(source_entity), target \in FirstNode(target_entity) :
         gloc' = [gloc EXCEPT ![p] =
                    [NoGloc EXCEPT !.source_entity = source_entity,
                                   !.target_entity = target_entity,
                                   !.source = source,
                                   !.target = target,
                                   !.relationship = relationship]]
    /\ gpc' = [gpc EXCEPT ![p] = "edge_write"]
    /\ gresult' = [gresult EXCEPT ![p] = NoGresult]
    /\ UNCHANGED <<nodes, edges, node_calls>>
    /\ UNCHANGED not_graph_vars

\* add_knowledge_edge, after the selects: ValueError when an end was not
\* found, which the tool turns into its failure text; else the insert and
\* the commit.
AddEdgeWrite(p) ==
    /\ gpc[p] = "edge_write"
    /\ IF NotFound(gloc[p].source, gloc[p].target)
       THEN /\ gresult' = [gresult EXCEPT ![p] =
                  [NoGresult EXCEPT !.tool = "add_knowledge_edge",
                                    !.kind = "failure"]]
            /\ UNCHANGED edges
       ELSE /\ edges' = edges \cup
                  {NewEdge(gloc[p].source, gloc[p].target, gloc[p].relationship)}
            /\ gresult' = [gresult EXCEPT ![p] =
                  [NoGresult EXCEPT !.tool = "add_knowledge_edge",
                                    !.kind = "ok",
                                    !.id = NextEdgeId]]
    /\ gpc' = [gpc EXCEPT ![p] = "idle"]
    /\ gloc' = [gloc EXCEPT ![p] = NoGloc]
    /\ UNCHANGED <<nodes, node_calls>>
    /\ UNCHANGED not_graph_vars

\* Rows in the order of their ids: the i-th is the one with i - 1 smaller
\* ids in the set.
ByRowid(rows) ==
    [i \in 1..Cardinality(rows) |->
        CHOOSE r \in rows : Cardinality({x \in rows : x.id < r.id}) = i - 1]

\* select(KnowledgeEdge).where(source_id == ...).all() on the rows of the
\* edge table: SQLite scans a table in rowid order.
EdgesFrom(edge_rows, source_id) ==
    ByRowid({e \in edge_rows : e.source_id = source_id})

\* session.get(KnowledgeNode, id) on the rows of the node table.
NodeById(node_rows, id) ==
    IF \E n \in node_rows : n.id = id
    THEN CHOOSE n \in node_rows : n.id = id
    ELSE NoNode

\* What traverse_graph reports for an edge it follows.
Hop(current_node, edge, target_node) ==
    [source |-> current_node.entity,
     relationship |-> edge.relationship,
     target |-> target_node.entity,
     description |-> target_node.description]

\* A test that forgets the visited set.
NotNone(target_node, visited) == target_node # NoNode

\* if target_node and target_node.id not in visited.
Unvisited(target_node, visited) ==
    target_node # NoNode /\ target_node.id \notin visited

RECURSIVE ForEachEdge(_, _, _, _, _, _, _)
\* The for loop of traverse_graph over the edges of the current node: a
\* target that exists and was not visited is marked, reported and queued.
ForEachEdge(rows, current_node, depth, visited, results, queue, node_rows) ==
    IF rows = <<>>
    THEN [visited |-> visited, results |-> results, queue |-> queue]
    ELSE LET target_node == NodeById(node_rows, Head(rows).target_id)
         IN  IF Unvisited(target_node, visited)
             THEN ForEachEdge(Tail(rows), current_node, depth,
                     visited \cup {target_node.id},
                     Append(results, Hop(current_node, Head(rows), target_node)),
                     Append(queue, <<target_node, depth + 1>>),
                     node_rows)
             ELSE ForEachEdge(Tail(rows), current_node, depth,
                     visited, results, queue, node_rows)

\* One iteration of the while loop of traverse_graph: queue.pop(0), then
\* nothing when the depth is reached, else the for loop.
WhileQueue(max_depth, state, node_rows, edge_rows) ==
    LET current_node == Head(state.queue)[1]
        depth == Head(state.queue)[2]
    IN  IF depth >= max_depth
        THEN [state EXCEPT !.queue = Tail(state.queue)]
        ELSE ForEachEdge(EdgesFrom(edge_rows, current_node.id),
                         current_node, depth,
                         state.visited, state.results, Tail(state.queue),
                         node_rows)

RECURSIVE RunQueue(_, _, _, _)
\* The while loop, run until the queue is empty.
RunQueue(max_depth, state, node_rows, edge_rows) ==
    IF state.queue = <<>> THEN state.results
    ELSE RunQueue(max_depth,
                  WhileQueue(max_depth, state, node_rows, edge_rows),
                  node_rows, edge_rows)

\* traverse_graph(start_entity, max_depth) on given tables: [] when no node
\* has the entity, else the loop from that node.
TraverseRows(node_rows, edge_rows, start_entity, max_depth) ==
    IF \E n \in node_rows : n.entity = start_entity
    THEN LET start_node == CHOOSE n \in node_rows : n.entity = start_entity
         IN  RunQueue(max_depth,
                      [visited |-> {start_node.id},
                       results |-> <<>>,
                       queue |-> <<<<start_node, 0>>>>],
                      node_rows, edge_rows)
    ELSE <<>>

\* traverse_graph on the graph as it is.
traverse_graph(start_entity, max_depth) ==
    TraverseRows(nodes, edges, start_entity, max_depth)

\* The server's calls on the graph, one at a time.
NextGraph ==
    \E p \in Server :
        \/ \E entity \in Entities, description \in Descriptions,
              node_data \in NodeData :
                AddNodeRead(p, entity, description, node_data)
        \/ AddNodeWrite(p)
        \/ \E source_entity \in Entities \cup {Unknown},
              target_entity \in Entities \cup {Unknown},
              relationship \in Relationships :
                AddEdgeRead(p, source_entity, target_entity, relationship)
        \/ AddEdgeWrite(p)

SpecGraph == Init /\ [][NextGraph]_vars

(***************************************************************************)
(* traverse_graph as the loop it is.  SpecTraverse starts from any graph   *)
(* that add_knowledge_node and add_knowledge_edge calls, issued one after  *)
(* the other, can have built over three entities, and runs traversals on   *)
(* it: the start, each iteration of the while loop and the return are      *)
(* steps, and so is each edge of the for loop.                             *)
(***************************************************************************)
\* How many edges the traversed graphs have at most.
MaxTraverseEdges == 3

\* The entities of the traversed graphs, in the order their nodes were added.
TraverseEntities == <<"A", "B", "C">>

\* Where a traversal is asked to start: at the first entity (the graphs of
\* InitTraverse are all the graphs on the three nodes, so every start is
\* this one in some graph) and at an entity that no node has.
TraverseStarts == {TraverseEntities[1], Unknown}

InitTraverse ==
    /\ InitButGraph
    /\ nodes = {[id |-> i, entity |-> TraverseEntities[i],
                 description |-> <<"d1">>, node_data |-> NoData] :
                    i \in DOMAIN TraverseEntities}
    /\ \E k \in 0..MaxTraverseEdges :
         \E ends \in [1..k -> (DOMAIN TraverseEntities)
                                    \X (DOMAIN TraverseEntities)] :
            edges = {[id |-> i, source_id |-> ends[i][1],
                      target_id |-> ends[i][2],
                      relationship |-> "uses", weight |-> One] : i \in 1..k}

\* traverse_graph up to the loop: the select of the start node, [] when
\* there is none, else visited, queue and results are set up.
TraverseStart(p, start_entity, max_depth) ==
    /\ gpc[p] = "idle"
    /\ \E start_node \in FirstNode(start_entity) :
         IF start_node = NoNode
         THEN /\ gresult' = [gresult EXCEPT ![p] =
                    [NoGresult EXCEPT !.tool = "traverse_graph",
                                      !.kind = "ok",
                                      !.start_entity = start_entity]]
              /\ UNCHANGED <<gpc, gloc>>
         ELSE /\ gloc' = [gloc EXCEPT ![p] =
                    [NoGloc EXCEPT !.entity = start_entity,
                                   !.max_depth = max_depth,
                                   !.visited = {start_node.id},
                                   !.queue = <<<<start_node, 0>>>>]]
              /\ gpc' = [gpc EXCEPT ![p] = "traverse"]
              /\ gresult' = [gresult EXCEPT ![p] = NoGresult]
    /\ UNCHANGED <<nodes, edges, node_calls>>
    /\ UNCHANGED not_graph_vars

\* A loop that expands the nodes at max_depth as well.
TraversePopDeeper(p) ==
    /\ gpc[p] = "traverse"
    /\ gloc[p].queue # <<>>
    /\ LET current_node == Head(gloc[p].queue)[1]
           depth == Head(gloc[p].queue)[2]
           rows == IF depth > gloc[p].max_depth
                   THEN <<>>
                   ELSE EdgesFrom(edges, current_node.id)
       IN  /\ gloc' = [gloc EXCEPT ![p].queue = Tail(gloc[p].queue),
                                   ![p].current_node = current_node,
                                   ![p].depth = depth,
                                   ![p].pending = rows]
           /\ gpc' = [gpc EXCEPT ![p] =
                        IF rows = <<>> THEN "traverse" ELSE "traverse_edges"]
    /\ UNCHANGED <<nodes, edges, gresult, node_calls>>
    /\ UNCHANGED not_graph_vars

\* while queue: queue.pop(0); continue when the depth is reached, else
\* select the edges of the current node for the for loop.
TraversePop(p) ==
    /\ gpc[p] = "traverse"
    /\ gloc[p].queue # <<>>
    /\ LET current_node == Head(gloc[p].queue)[1]
           depth == Head(gloc[p].queue)[2]
           rows == IF depth >= gloc[p].max_depth
                   THEN <<>>
                   ELSE EdgesFrom(edges, current_node.id)
       IN  /\ gloc' = [gloc EXCEPT ![p].queue = Tail(gloc[p].queue),
                                   ![p].current_node = current_node,
                                   ![p].depth = depth,
                                   ![p].pending = rows]
           /\ gpc' = [gpc EXCEPT ![p] =
                        IF rows = <<>> THEN "traverse" ELSE "traverse_edges"]
    /\ UNCHANGED <<nodes, edges, gresult, node_calls>>
    /\ UNCHANGED not_graph_vars

\* for edge in edges: one edge.  After the last one the while loop goes on.
TraverseEdge(p) ==
    /\ gpc[p] = "traverse_edges"
    /\ LET edge == Head(gloc[p].pending)
           target_node == NodeById(nodes, edge.target_id)
       IN  gloc' =
             IF Unvisited(target_node, gloc[p].visited)
             THEN [gloc EXCEPT
                     ![p].visited = gloc[p].visited \cup {target_node.id},
                     ![p].results =
                         Append(gloc[p].results,
                                Hop(gloc[p].current_node, edge, target_node)),
                     ![p].queue =
                         Append(gloc[p].queue,
                                <<target_node, gloc[p].depth + 1>>),
                     ![p].pending = Tail(gloc[p].pending)]
             ELSE [gloc EXCEPT ![p].pending = Tail(gloc[p].pending)]
    /\ gpc' = [gpc EXCEPT ![p] =
                 IF Tail(gloc[p].pending) = <<>>
                 THEN "traverse" ELSE "traverse_edges"]
    /\ UNCHANGED <<nodes, edges, gresult, node_calls>>
    /\ UNCHANGED not_graph_vars

\* The queue is empty: return results.
TraverseReturn(p) ==
    /\ gpc[p] = "traverse"
    /\ gloc[p].queue = <<>>
    /\ gresult' = [gresult EXCEPT ![p] =
          [NoGresult EXCEPT !.tool = "traverse_graph",
                            !.kind = "ok",
                            !.start_entity = gloc[p].entity,
                            !.results = gloc[p].results]]
    /\ gpc' = [gpc EXCEPT ![p] = "idle"]
    /\ gloc' = [gloc EXCEPT ![p] = NoGloc]
    /\ UNCHANGED <<nodes, edges, node_calls>>
    /\ UNCHANGED not_graph_vars

NextTraverse ==
    \E p \in Server :
        \/ \E start_entity \in TraverseStarts, max_depth \in 0..MaxDepth :
                TraverseStart(p, start_entity, max_depth)
        \/ TraversePop(p)
        \/ TraverseEdge(p)
        \/ TraverseReturn(p)

\* A traversal that has begun keeps running: its thread is scheduled until
\* it returns.
SpecTraverse ==
    /\ InitTraverse
    /\ [][NextTraverse]_vars
    /\ \A p \in Server :
          /\ WF_vars(TraversePop(p))
          /\ WF_vars(TraverseEdge(p))
          /\ WF_vars(TraverseReturn(p))

\* Concurrent callers of add_knowledge_node: threads that share the engine,
\* or the server processes of several applications, which share one
\* database file.  Nothing orders one call's select and commit with respect
\* to another's.
NextGraphConcurrent ==
    \E p \in Callers :
        \/ \E entity \in Entities, description \in Descriptions,
              node_data \in NodeData :
                AddNodeRead(p, entity, description, node_data)
        \/ AddNodeWrite(p)

SpecGraphConcurrent == Init /\ [][NextGraphConcurrent]_vars

(***************************************************************************)
(* The conversation registry of mcp_server.py: the process global          *)
(* _current_conversation_id and the file project_registry.json, which maps *)
(* a project (the working directory) to its conversation id.  An id is     *)
(* "auto_<time>_<8 hex digits of a uuid4>": a fresh value each time, here  *)
(* the next number.                                                        *)
(***************************************************************************)
\* How many conversation ids are generated in one behaviour.
MaxConversationIds == 3
\* How often a process is started again.
MaxRestarts == 2

\* A dictionary that holds only the new entry.
OnlyEntry(dict, key, value) == [k \in {key} |-> value]

\* dict[key] = value.
WithEntry(dict, key, value) ==
    [k \in DOMAIN dict \cup {key} |-> IF k = key THEN value ELSE dict[k]]

\* What a call of get_conversation_id returned, for the history.
Resolves(p, id) ==
    resolved' = [resolved EXCEPT ![cwd[p]] = @ \cup {<<id, incarnation[p]>>}]

\* The registry file when it holds no JSON text: a save opens the file for
\* writing, which empties it, and writes the text when it closes it.
Unparsed == [k \in {"not json"} |-> NoId]

\* load_project_registry(): the dictionary in the file, {} when the file
\* is missing or cannot be parsed.
load_project_registry == IF registry = Unparsed THEN <<>> ELSE registry

\* get_conversation_id up to the save: the global when it is set; else the
\* registry is loaded and the project's id taken from it; else an id is
\* generated, stored in the global and put into the loaded registry.
ResolveLoad(p) ==
    /\ rpc[p] = "idle"
    /\ IF current_conversation_id[p] # NoId
       THEN /\ Resolves(p, current_conversation_id[p])
            /\ UNCHANGED <<current_conversation_id, rpc, rloc, ids_made>>
       ELSE IF cwd[p] \in DOMAIN load_project_registry
       THEN /\ current_conversation_id' =
                  [current_conversation_id EXCEPT ![p] = load_project_registry[cwd[p]]]
            /\ Resolves(p, load_project_registry[cwd[p]])
            /\ UNCHANGED <<rpc, rloc, ids_made>>
       ELSE /\ ids_made < MaxConversationIds
            /\ ids_made' = ids_made + 1
            /\ current_conversation_id' =
                  [current_conversation_id EXCEPT ![p] = ids_made + 1]
            /\ rloc' = [rloc EXCEPT ![p] =
                          WithEntry(load_project_registry, cwd[p],
                                    ids_made + 1)]
            /\ rpc' = [rpc EXCEPT ![p] = "resolve_save"]
            /\ UNCHANGED resolved
    /\ UNCHANGED <<registry, cwd, incarnation>>
    /\ UNCHANGED not_registry_vars

\* save_project_registry(registry) and the return of get_conversation_id.
ResolveSave(p) ==
    /\ rpc[p] = "resolve_save"
    /\ registry' = rloc[p]
    /\ Resolves(p, current_conversation_id[p])
    /\ rpc' = [rpc EXCEPT ![p] = "idle"]
    /\ rloc' = [rloc EXCEPT ![p] = <<>>]
    /\ UNCHANGED <<current_conversation_id, cwd, incarnation, ids_made>>
    /\ UNCHANGED not_registry_vars

\* reset_conversation_id up to the save: a new id, stored in the global and
\* put into the loaded registry.
ResetLoad(p) ==
    /\ rpc[p] = "idle"
    /\ ids_made < MaxConversationIds
    /\ ids_made' = ids_made + 1
    /\ current_conversation_id' =
          [current_conversation_id EXCEPT ![p] = ids_made + 1]
    /\ rloc' = [rloc EXCEPT ![p] =
                  WithEntry(load_project_registry, cwd[p], ids_made + 1)]
    /\ rpc' = [rpc EXCEPT ![p] = "reset_save"]
    /\ resolved' = [resolved EXCEPT ![cwd[p]] = {}]
    /\ UNCHANGED <<registry, cwd, incarnation>>
    /\ UNCHANGED not_registry_vars

\* save_project_registry(registry) and the return of reset_conversation_id.
ResetSave(p) ==
    /\ rpc[p] = "reset_save"
    /\ registry' = rloc[p]
    /\ rpc' = [rpc EXCEPT ![p] = "idle"]
    /\ rloc' = [rloc EXCEPT ![p] = <<>>]
    /\ UNCHANGED <<current_conversation_id, cwd, incarnation, ids_made, resolved>>
    /\ UNCHANGED not_registry_vars

\* The server process ends between two calls and is started again, in the
\* same project or in another: its globals are as the module sets them.
Restart(p) ==
    /\ rpc[p] = "idle"
    /\ incarnation[p] < MaxRestarts
    /\ incarnation' = [incarnation EXCEPT ![p] = @ + 1]
    /\ current_conversation_id' = [current_conversation_id EXCEPT ![p] = NoId]
    /\ \E project \in Projects : cwd' = [cwd EXCEPT ![p] = project]
    /\ UNCHANGED <<registry, rpc, rloc, ids_made, resolved>>
    /\ UNCHANGED not_registry_vars

\* One server process at a time uses the registry, and it ends only
\* between calls.
NextRegistry ==
    \E p \in Server :
        \/ ResolveLoad(p)
        \/ ResolveSave(p)
        \/ ResetLoad(p)
        \/ ResetSave(p)
        \/ Restart(p)

SpecRegistry == Init /\ [][NextRegistry]_vars

\* The processes that may act when calls do not overlap: no other process
\* is inside a call.
Alone ==
    {p \in Callers : \A q \in Callers \ {p} : rpc[q] = "idle"}

\* Several server processes share the registry file, each with its own
\* globals; their calls do not overlap.
NextRegistryProcesses ==
    \E p \in Alone :
        \/ ResolveLoad(p)
        \/ ResolveSave(p)
        \/ ResetLoad(p)
        \/ ResetSave(p)
        \/ Restart(p)

SpecRegistryProcesses == Init /\ [][NextRegistryProcesses]_vars

\* Several server processes share the registry file and their calls
\* overlap: nothing in load_project_registry or save_project_registry
\* holds a lock.
NextRegistryShared ==
    \E p \in Callers :
        \/ ResolveLoad(p)
        \/ ResolveSave(p)
        \/ ResetLoad(p)
        \/ ResetSave(p)
        \/ Restart(p)

SpecRegistryShared == Init /\ [][NextRegistryShared]_vars

\* A process is killed inside save_project_registry, after open(path, 'w')
\* has emptied the file and before the text is written, and is started
\* again in the same project or in another.
SaveDies(p) ==
    /\ rpc[p] \in {"resolve_save", "reset_save"}
    /\ incarnation[p] < MaxRestarts
    /\ registry' = Unparsed
    /\ incarnation' = [incarnation EXCEPT ![p] = @ + 1]
    /\ current_conversation_id' = [current_conversation_id EXCEPT ![p] = NoId]
    /\ \E project \in Projects : cwd' = [cwd EXCEPT ![p] = project]
    /\ rpc' = [rpc EXCEPT ![p] = "idle"]
    /\ rloc' = [rloc EXCEPT ![p] = <<>>]
    /\ UNCHANGED <<ids_made, resolved>>
    /\ UNCHANGED not_registry_vars

\* The processes that share the registry file, their calls overlapping,
\* any of them dying inside a save.
NextRegistryTorn ==
    \E p \in Callers :
        \/ ResolveLoad(p)
        \/ ResolveSave(p)
        \/ ResetLoad(p)
        \/ ResetSave(p)
        \/ Restart(p)
        \/ SaveDies(p)

SpecRegistryTorn == Init /\ [][NextRegistryTorn]_vars

(***************************************************************************)
(* The snapshot manager: a git repository in the root of the persisted     *)
(* state.  A commit is a record of its parents, its message and its tree;  *)
(* the tree is the version of the files that was staged.                   *)
(***************************************************************************)
\* Number of snapshot calls of the tools in one behaviour.
MaxCommits == 3
\* Number of times the files under the root change.
MaxFileWrites == 1

\* self.snapshot("Initial memory state") in MemoryEngine.__init__.
InitialMessage == "Initial memory state"
\* The messages the callers pass to snapshot_memory.
Messages == {InitialMessage, "checkpoint"}

\* The calls of engine.snapshot that have not returned.
InFlight == {p \in Callers : spc[p] # "idle"}

\* parent = [] unless repo.head.target can be read.
Parent == IF head = Unborn THEN <<>> ELSE <<head>>

\* A commit object that forgets its parents.
NewCommitRoot(parent, message, tree) ==
    [parents |-> <<>>, message |-> message, tree |-> tree]

\* The commit object create_commit writes.
NewCommit(parent, message, tree) ==
    [parents |-> parent, message |-> message, tree |-> tree]

\* create_commit('HEAD', ...) refuses a commit whose first parent is not the
\* commit the branch points to (libgit2: "current tip is not the first
\* parent"); an unborn branch takes a commit without parents.
TipIsFirstParent(parent) ==
    IF head = Unborn THEN parent = <<>>
    ELSE parent # <<>> /\ parent[1] = head

\* MemoryEngine(base_path) up to the snapshot: a root without .git gets a
\* repository and the initial snapshot, a root with .git is opened.
ConstructAlwaysSnapshots(p) ==
    /\ ~constructed[p]
    /\ spc[p] = "idle"
    /\ git_dir' = TRUE
    /\ spc' = [spc EXCEPT ![p] = "stage"]
    /\ sloc' = [sloc EXCEPT ![p] =
                  [NoSloc EXCEPT !.message = InitialMessage,
                                 !.initial = TRUE]]
    /\ UNCHANGED <<commits, head, index, worktree, sresult, constructed>>
    /\ UNCHANGED not_snapshot_vars

Construct(p) ==
    /\ ~constructed[p]
    /\ spc[p] = "idle"
    /\ IF ~git_dir
       THEN /\ git_dir' = TRUE
            /\ spc' = [spc EXCEPT ![p] = "stage"]
            /\ sloc' = [sloc EXCEPT ![p] =
                          [NoSloc EXCEPT !.message = InitialMessage,
                                         !.initial = TRUE]]
            /\ UNCHANGED constructed
       ELSE /\ constructed' = [constructed EXCEPT ![p] = TRUE]
            /\ UNCHANGED <<git_dir, spc, sloc>>
    /\ UNCHANGED <<commits, head, index, worktree, sresult>>
    /\ UNCHANGED not_snapshot_vars

\* snapshot_memory(message): get_engine() and the call of engine.snapshot.
SnapshotCall(p, message) ==
    /\ constructed[p]
    /\ spc[p] = "idle"
    /\ Len(commits) + Cardinality(InFlight) < MaxCommits
    /\ spc' = [spc EXCEPT ![p] = "stage"]
    /\ sloc' = [sloc EXCEPT ![p] = [NoSloc EXCEPT !.message = message]]
    /\ sresult' = [sresult EXCEPT ![p] = "none"]
    /\ UNCHANGED <<git_dir, commits, head, index, worktree, constructed>>
    /\ UNCHANGED not_snapshot_vars

\* index.add_all(); index.write(); tree = index.write_tree()
SnapshotStage(p) ==
    /\ spc[p] = "stage"
    /\ index' = worktree
    /\ sloc' = [sloc EXCEPT ![p].tree = worktree]
    /\ spc' = [spc EXCEPT ![p] = "parent"]
    /\ UNCHANGED <<git_dir, commits, head, worktree, sresult, constructed>>
    /\ UNCHANGED not_snapshot_vars

\* parent = []; try: parent = [self.repo.head.target]
SnapshotParent(p) ==
    /\ spc[p] = "parent"
    /\ sloc' = [sloc EXCEPT ![p].parent = Parent]
    /\ spc' = [spc EXCEPT ![p] = "commit"]
    /\ UNCHANGED <<git_dir, commits, head, index, worktree, sresult,
                   constructed>>
    /\ UNCHANGED not_snapshot_vars

\* The call raises: snapshot_memory reports "Snapshot failed", and a
\* constructor that raises leaves the process without an engine.
SnapshotRaises(p) ==
    /\ sresult' = [sresult EXCEPT ![p] = "failed"]
    /\ spc' = [spc EXCEPT ![p] = "idle"]
    /\ sloc' = [sloc EXCEPT ![p] = NoSloc]
    /\ UNCHANGED <<git_dir, worktree, constructed>>
    /\ UNCHANGED not_snapshot_vars

\* create_commit('HEAD', author, committer, message, tree, parent) and the
\* return: the commit is written and the branch moved to it, or the call
\* raises and leaves both alone.
SnapshotCommit(p) ==
    /\ spc[p] = "commit"
    /\ IF TipIsFirstParent(sloc[p].parent)
       THEN /\ commits' = Append(commits, NewCommit(sloc[p].parent,
                                    sloc[p].message, sloc[p].tree))
            /\ head' = Len(commits) + 1
            /\ sresult' = [sresult EXCEPT ![p] = "ok"]
            /\ constructed' = [constructed EXCEPT ![p] = @ \/ sloc[p].initial]
            /\ spc' = [spc EXCEPT ![p] = "idle"]
            /\ sloc' = [sloc EXCEPT ![p] = NoSloc]
            /\ UNCHANGED <<git_dir, index, worktree>>
            /\ UNCHANGED not_snapshot_vars
       ELSE /\ SnapshotRaises(p)
            /\ UNCHANGED <<commits, head, index>>

\* Staging fails (the root is unwritable): index.add_all, index.write or
\* index.write_tree raises, after index.write or before it.
SnapshotStageFails(p) ==
    /\ spc[p] = "stage"
    /\ index' \in {index, worktree}
    /\ SnapshotRaises(p)
    /\ UNCHANGED <<commits, head>>

\* create_commit fails after the branch was moved: not what libgit2 does.
SnapshotCommitFailsLate(p) ==
    /\ spc[p] = "commit"
    /\ commits' = Append(commits, NewCommit(sloc[p].parent,
                            sloc[p].message, sloc[p].tree))
    /\ head' = Len(commits) + 1
    /\ SnapshotRaises(p)
    /\ UNCHANGED index

\* create_commit fails (the object database or the reference is
\* unwritable): the reference is written last and by a rename, so that a
\* failure leaves the branch where it was.
SnapshotCommitFails(p) ==
    /\ spc[p] = "commit"
    /\ SnapshotRaises(p)
    /\ UNCHANGED <<commits, head, index>>

\* The stores write to their files under the root.
WriteFile ==
    /\ worktree < MaxFileWrites
    /\ worktree' = worktree + 1
    /\ UNCHANGED <<git_dir, commits, head, index, spc, sloc, sresult,
                   constructed>>
    /\ UNCHANGED not_snapshot_vars

\* The process ends between two calls and is started again: _engine is
\* None again and no call has reported anything.
EngineRestart(p) ==
    /\ constructed[p]
    /\ spc[p] = "idle"
    /\ constructed' = [constructed EXCEPT ![p] = FALSE]
    /\ sresult' = [sresult EXCEPT ![p] = "none"]
    /\ UNCHANGED <<git_dir, commits, head, index, worktree, spc, sloc>>
    /\ UNCHANGED not_snapshot_vars

\* One server process takes snapshots; its calls may fail.
NextSnapshot ==
    \/ WriteFile
    \/ \E p \in Server :
        \/ Construct(p)
        \/ \E message \in Messages : SnapshotCall(p, message)
        \/ SnapshotStage(p)
        \/ SnapshotParent(p)
        \/ SnapshotCommit(p)
        \/ SnapshotStageFails(p)
        \/ SnapshotCommitFails(p)
        \/ EngineRestart(p)

SpecSnapshot == Init /\ [][NextSnapshot]_vars

\* Several processes on one root take snapshots: engine.snapshot holds no
\* lock.
NextSnapshotShared ==
    \/ WriteFile
    \/ \E p \in Callers :
        \/ Construct(p)
        \/ \E message \in Messages : SnapshotCall(p, message)
        \/ SnapshotStage(p)
        \/ SnapshotParent(p)
        \/ SnapshotCommit(p)
        \/ EngineRestart(p)

SpecSnapshotShared == Init /\ [][NextSnapshotShared]_vars

(***************************************************************************)
(* The engine handle of the server process.  The tools are coroutines on   *)
(* one event loop and get_engine() holds no await: a call of get_engine(), *)
(* the constructor of MemoryEngine included, runs without another task     *)
(* running in between.                                                     *)
(***************************************************************************)
\* Number of MemoryEngine constructions in one behaviour.
MaxEngines == 3

\* if _engine is None
MustConstructAlways == TRUE

MustConstruct == engine = NoEngine

\* What MemoryEngine.__init__ does to the root: a root without .git gets a
\* repository and the initial snapshot of the files.
ConstructRoot ==
    IF git_dir
    THEN UNCHANGED <<git_dir, commits, head, index>>
    ELSE /\ git_dir' = TRUE
         /\ index' = worktree
         /\ commits' = Append(commits,
                              NewCommit(Parent, InitialMessage, worktree))
         /\ head' = Len(commits) + 1

\* get_engine(): the engine is constructed when the global is None, and
\* the global is returned.
GetEngine(t) ==
    /\ IF MustConstruct
       THEN /\ engines_made < MaxEngines
            /\ engines_made' = engines_made + 1
            /\ engine' = engines_made + 1
            /\ ConstructRoot
       ELSE UNCHANGED <<engine, engines_made, git_dir, commits, head, index>>
    /\ handle' = [handle EXCEPT ![t] = engine']
    /\ UNCHANGED <<worktree, spc, sloc, sresult, constructed>>
    /\ UNCHANGED <<store_vars, scored, graph_vars, registry_vars, auto_vars,
                   scan_vars>>

\* get_engine() when the constructor raises, before init_repository or in
\* the initial snapshot: the global stays None.
GetEngineFails(t) ==
    /\ engine = NoEngine
    /\ handle' = [handle EXCEPT ![t] = Raised]
    /\ git_dir' \in {git_dir, TRUE}
    /\ UNCHANGED <<engine, engines_made>>
    /\ UNCHANGED <<commits, head, index, worktree, spc, sloc, sresult,
                   constructed>>
    /\ UNCHANGED <<store_vars, scored, graph_vars, registry_vars, auto_vars,
                   scan_vars>>

\* The server process ends and is started again: its tasks are gone and
\* _engine is None.
ProcessRestart ==
    /\ engine # NoEngine
    /\ engine' = NoEngine
    /\ handle' = [t \in Tasks |-> NoEngine]
    /\ UNCHANGED engines_made
    /\ UNCHANGED snapshot_vars
    /\ UNCHANGED <<store_vars, scored, graph_vars, registry_vars, auto_vars,
                   scan_vars>>

NextEngine ==
    \/ WriteFile
    \/ ProcessRestart
    \/ \E t \in Tasks : GetEngine(t) \/ GetEngineFails(t)

SpecEngine == Init /\ [][NextEngine]_vars

(***************************************************************************)
(* Tool retrieve_memory with auto_log_interaction, in the one server       *)
(* process.  auto_log_interaction catches what engine.ingest_interaction   *)
(* raises and prints a warning; retrieve_memory catches what the search    *)
(* raises and returns a failure text.                                      *)
(***************************************************************************)
\* limit: int = 5 of retrieve_memory.
RetrieveLimit == 5
\* limit: int = 10 of retrieve_episodic.
EpisodicLimit == 10

\* The queries and conversation ids the callers pass to retrieve_memory.
Queries == {"sky", ""}
RetrieveConversations == {"s1", ""}

\* f"auto_{...}": the conversation ids get_conversation_id() generates.
AutoName(id) == <<"auto_1", "auto_2", "auto_3", "auto_4">>[id]

\* f"Memory retrieval: {result_text[:200]}...": the results as text, cut.
ResponseText(results) == "Memory retrieval: ..."

\* auto_log_interaction logs a text when auto-ingest is enabled, the table
\* exists already, the text is not empty and its kind is to be logged.
AutoLogsOnceIndexed(text, flag) ==
    auto_ingest.enabled /\ text # "" /\ flag /\ table_exists

\* auto_log_interaction logs a text whenever the text is not empty and its
\* kind is to be logged, auto-ingest enabled or not.
AutoLogsDisabledToo(text, flag) ==
    text # "" /\ flag

\* auto_log_interaction logs a text when auto-ingest is enabled, the text
\* is not empty (nor None) and its kind is to be logged.
AutoLogs(text, flag) ==
    auto_ingest.enabled /\ text # "" /\ flag

\* What get_conversation_id() returns to process p.
ResolvedId(p) ==
    IF current_conversation_id[p] # NoId THEN current_conversation_id[p]
    ELSE IF cwd[p] \in DOMAIN load_project_registry
         THEN load_project_registry[cwd[p]]
    ELSE ids_made + 1

\* conv_id = conversation_id or get_conversation_id()
ConvId(p, conversation_id) ==
    IF conversation_id # "" THEN conversation_id ELSE AutoName(ResolvedId(p))

\* get_conversation_id() as one step of the process.
GetConversationId(p) ==
    /\ current_conversation_id' =
          [current_conversation_id EXCEPT ![p] = ResolvedId(p)]
    /\ IF /\ current_conversation_id[p] = NoId
          /\ cwd[p] \notin DOMAIN load_project_registry
       THEN /\ ids_made < MaxConversationIds
            /\ ids_made' = ids_made + 1
            /\ registry' = WithEntry(load_project_registry, cwd[p],
                                     ids_made + 1)
       ELSE UNCHANGED <<ids_made, registry>>
    /\ Resolves(p, ResolvedId(p))
    /\ UNCHANGED <<cwd, rpc, rloc, incarnation>>

\* engine.ingest_interaction(conv_id, role, content) as one step of the
\* process; indexed is false when it raises after the commit to SQLite.
Ingested(conv_id, role, content, indexed) ==
    /\ \E history \in retrieve_episodic(conv_id, HistoryLimit) :
         \E now \in {clock, clock + 1} :
            /\ now <= MaxClock
            /\ clock' = now
            /\ interactions' = interactions \cup
                  {[id |-> NextId,
                    timestamp |-> now,
                    role |-> role,
                    content |-> content,
                    surprise_score |->
                        calculate_surprise(content,
                                           {h.content : h \in history}),
                    conversation_id |-> conv_id]}
    /\ ingests' = ingests + 1
    /\ assigned' = assigned \cup {NextId}
    /\ IF indexed
       THEN /\ table_exists' = TRUE
            /\ master_vectors' =
                  IF table_exists
                  THEN Append(master_vectors,
                              DataPacket(NextId, conv_id, role, content))
                  ELSE <<DataPacket(NextId, conv_id, role, content)>>
            /\ returned' = returned \cup {NextId}
       ELSE UNCHANGED <<table_exists, master_vectors, returned>>

NotIngested ==
    UNCHANGED <<interactions, table_exists, master_vectors, clock, ingests,
                assigned, returned>>

\* What the tools of this section leave alone.
not_auto_vars == <<scored, graph_vars, snapshot_vars, engine_vars, scan_vars>>

\* configure_auto_ingest(enabled, log_queries, log_responses)
ConfigureAutoIngest(p, enabled, log_queries, log_responses) ==
    /\ pc[p] = "idle"
    /\ auto_ingest' = [enabled |-> enabled, log_queries |-> log_queries,
                       log_responses |-> log_responses]
    /\ UNCHANGED <<store_vars, registry_vars, retrieved>>
    /\ UNCHANGED not_auto_vars

\* The call as the history keeps it.
Retrieving(conversation_id, query, logged) ==
    [conversation_id |-> conversation_id, query |-> query,
     kind |-> "running", enabled |-> auto_ingest.enabled,
     log_queries |-> auto_ingest.log_queries, logged |-> logged]

\* retrieve_memory up to the search: auto_log_interaction(query_text=query,
\* conversation_id=conversation_id).
RetrieveLogQuery(p, conversation_id, query) ==
    /\ pc[p] = "idle"
    /\ ingests + 2 <= MaxIngests
    /\ IF auto_ingest.enabled /\ conversation_id = ""
       THEN GetConversationId(p)
       ELSE UNCHANGED registry_vars
    /\ IF AutoLogs(query, auto_ingest.log_queries)
       THEN /\ Ingested(ConvId(p, conversation_id), "user", query, TRUE)
            /\ retrieved' = Retrieving(conversation_id, query, "ok")
       ELSE /\ NotIngested
            /\ retrieved' = Retrieving(conversation_id, query, "skipped")
    /\ pc' = [pc EXCEPT ![p] = "retrieve_search"]
    /\ loc' = [loc EXCEPT ![p] =
                  [NoLoc EXCEPT !.conversation_id = conversation_id,
                                !.content = query]]
    /\ result' = [result EXCEPT ![p] = NoResult]
    /\ UNCHANGED auto_ingest
    /\ UNCHANGED not_auto_vars

\* The same when engine.ingest_interaction raises, before the commit or
\* after it: the warning is printed and the tool goes on.
RetrieveLogQueryFails(p, conversation_id, query, committed) ==
    /\ pc[p] = "idle"
    /\ ingests + 2 <= MaxIngests
    /\ AutoLogs(query, auto_ingest.log_queries)
    /\ IF conversation_id = ""
       THEN GetConversationId(p)
       ELSE UNCHANGED registry_vars
    /\ IF committed
       THEN /\ Ingested(ConvId(p, conversation_id), "user", query, FALSE)
            /\ retrieved' = Retrieving(conversation_id, query, "raised_late")
       ELSE /\ NotIngested
            /\ retrieved' = Retrieving(conversation_id, query, "raised")
    /\ pc' = [pc EXCEPT ![p] = "retrieve_search"]
    /\ loc' = [loc EXCEPT ![p] =
                  [NoLoc EXCEPT !.conversation_id = conversation_id,
                                !.content = query]]
    /\ result' = [result EXCEPT ![p] = NoResult]
    /\ UNCHANGED auto_ingest
    /\ UNCHANGED not_auto_vars

\* The tool returns.
Retrieved(p, kind) ==
    /\ retrieved' = [retrieved EXCEPT !.kind = kind]
    /\ Return(p, [NoResult EXCEPT !.tool = "retrieve_memory",
                                  !.kind = kind,
                                  !.conversation_id = loc[p].conversation_id])
    /\ UNCHANGED <<auto_ingest, registry_vars>>
    /\ UNCHANGED not_auto_vars

\* retrieve_memory from the search on: no table, no results, or the
\* results, after auto_log_interaction(response_text=...).
RetrieveSearch(p) ==
    /\ pc[p] = "retrieve_search"
    /\ IF ~table_exists
       THEN /\ NotIngested
            /\ Retrieved(p, "no_memories")
       ELSE \E results \in search(loc[p].content, RetrieveLimit) :
               IF results = <<>>
               THEN /\ NotIngested
                    /\ Retrieved(p, "no_results")
               ELSE /\ IF AutoLogs(ResponseText(results),
                                   auto_ingest.log_responses)
                       THEN Ingested(ConvId(p, loc[p].conversation_id),
                                     "assistant", ResponseText(results), TRUE)
                       ELSE NotIngested
                    /\ Retrieved(p, "ok")

\* The same when the ingest of the response raises.
RetrieveLogResponseFails(p, committed) ==
    /\ pc[p] = "retrieve_search"
    /\ table_exists
    /\ \E results \in search(loc[p].content, RetrieveLimit) :
         /\ results # <<>>
         /\ AutoLogs(ResponseText(results), auto_ingest.log_responses)
         /\ IF committed
            THEN Ingested(ConvId(p, loc[p].conversation_id), "assistant",
                          ResponseText(results), FALSE)
            ELSE NotIngested
    /\ Retrieved(p, "ok")

\* table_names, open_table, encode or search raises: "Error occurred
\* during retrieval".
RetrieveSearchFails(p) ==
    /\ pc[p] = "retrieve_search"
    /\ NotIngested
    /\ Retrieved(p, "failure")

\* Retrievals of one server process, one call at a time, with the failures
\* the retrieval catches.
NextAutoIngest ==
    \E p \in Server :
        \/ \E enabled, log_queries, log_responses \in BOOLEAN :
              ConfigureAutoIngest(p, enabled, log_queries, log_responses)
        \/ \E conversation_id \in RetrieveConversations, query \in Queries :
              \/ RetrieveLogQuery(p, conversation_id, query)
              \/ \E committed \in BOOLEAN :
                    RetrieveLogQueryFails(p, conversation_id, query, committed)
        \/ RetrieveSearch(p)
        \/ \E committed \in BOOLEAN : RetrieveLogResponseFails(p, committed)
        \/ RetrieveSearchFails(p)

SpecAutoIngest == Init /\ [][NextAutoIngest]_vars

(***************************************************************************)
(* Consolidation next to a knowledge graph that holds nodes and an edge.   *)
(***************************************************************************)
InitConsolidate ==
    /\ InitButGraph
    /\ nodes = {[id |-> 1, entity |-> "A", description |-> <<"d1">>,
                 node_data |-> NoData],
                [id |-> 2, entity |-> "B", description |-> <<"d2">>,
                 node_data |-> NoData]}
    /\ edges = {[id |-> 1, source_id |-> 1, target_id |-> 2,
                 relationship |-> "uses", weight |-> One]}

SpecConsolidate == InitConsolidate /\ [][Next]_vars

(***************************************************************************)
(* The log ingester (ingestion.py).  Times are seconds since the epoch;    *)
(* the scan is made at NowTs.  A record's raw timestamp is a number of     *)
(* seconds (or an ISO date, which parses to one), NoTimestamp when the     *)
(* mapped key is missing or null, BadTimestamp when it is a string that is *)
(* no date.  Numbers above 1e11, which the code takes for milliseconds,    *)
(* are not among the inputs.                                               *)
(***************************************************************************)
\* hours * 3600
HourSeconds == 3600
\* f.readlines()[-100:]
TextTail == 100
\* Largest hours passed to scan_all.
MaxHours == 2
\* Largest number of records written to a log file one by one.
MaxRecords == 2

\* datetime.now(timezone.utc).timestamp() at the scan.
NowTs == 3 * HourSeconds
\* The times of the records and of the files' modifications.
Times == {k * HourSeconds : k \in 0..3}
\* None: _parse_timestamp found no time; the mapped key is missing.
NoTimestamp == -1
BadTimestamp == -2
RawTimestamps == Times \cup {NoTimestamp, BadTimestamp}
\* The values of the mapped content; a text file's blank line is "".
RawContents == {"", "news"}
\* None: _map_record returns no item.
NoItem == [source |-> "", timestamp |-> NoTimestamp, content |-> "",
           origin |-> 0]

\* Python's truth value of a timestamp: None and 0 are false.
Truthy(ts_val) == ts_val # NoTimestamp /\ ts_val # 0

\* _parse_timestamp
_parse_timestamp(ts_val) ==
    IF ~Truthy(ts_val) THEN NoTimestamp
    ELSE IF ts_val = BadTimestamp THEN NoTimestamp
    ELSE ts_val

\* _map_record for a source whose mapping names timestamp and content.
\* origin is history: the place of the record in its file.
_map_record(raw_record, name, file_ts, cutoff_ts, origin) ==
    LET parsed_ts == _parse_timestamp(raw_record.ts)
        ts == IF Truthy(parsed_ts) THEN parsed_ts ELSE file_ts
    IN  IF ts < cutoff_ts THEN NoItem
        ELSE IF raw_record.content = "" THEN NoItem
        ELSE [source |-> name, timestamp |-> ts,
              content |-> raw_record.content, origin |-> origin]

\* _parse_jsonl: the items of the records, in the order of the file.
RECURSIVE MapRecords(_, _, _, _, _)
MapRecords(records, name, file_ts, cutoff_ts, done) ==
    IF done = Len(records) THEN <<>>
    ELSE LET item == _map_record(records[done + 1], name, file_ts,
                                 cutoff_ts, done + 1)
         IN  (IF item = NoItem THEN <<>> ELSE <<item>>)
             \o MapRecords(records, name, file_ts, cutoff_ts, done + 1)

_parse_jsonl(file, name, cutoff_ts) ==
    MapRecords(file.records, name, file.mtime, cutoff_ts, 0)

\* _parse_text: the lines that are not blank among the last 100, each with
\* the file's modification time.
RECURSIVE TextItems(_, _, _, _)
TextItems(records, name, file_ts, done) ==
    IF done = Len(records) THEN <<>>
    ELSE (IF records[done + 1].content = "" THEN <<>>
          ELSE <<[source |-> name, timestamp |-> file_ts,
                  content |-> records[done + 1].content,
                  origin |-> done + 1]>>)
         \o TextItems(records, name, file_ts, done + 1)

_parse_text(file, name, cutoff_ts) ==
    IF file.mtime < cutoff_ts THEN <<>>
    ELSE LET first == IF Len(file.records) > TextTail
                      THEN Len(file.records) - TextTail ELSE 0
         IN  TextItems(file.records, name, file.mtime, first)

\* _scan_source: files modified before the cutoff are skipped.
_scan_source(source_config, cutoff_ts) ==
    LET file == log_files[source_config.name]
    IN  IF file.mtime < cutoff_ts THEN <<>>
        ELSE IF source_config.format = "jsonl"
        THEN _parse_jsonl(file, source_config.name, cutoff_ts)
        ELSE _parse_text(file, source_config.name, cutoff_ts)

\* scan_all: the sources one after the other.
RECURSIVE ScanSources(_, _)
ScanSources(done, cutoff_ts) ==
    IF done = Len(Sources) THEN <<>>
    ELSE _scan_source(Sources[done + 1], cutoff_ts)
         \o ScanSources(done + 1, cutoff_ts)

CutoffTs(hours) == NowTs - hours * HourSeconds

scan_all(hours) == ScanSources(0, CutoffTs(hours))

\* An external agent appends a record to its log; the file's modification
\* time becomes the time of the write, or any other time (a copy, a
\* restore or another machine's clock sets it).
WriteRecord(name, ts, content, mtime) ==
    /\ scan_hours = 0
    /\ Len(log_files[name].records) < MaxRecords
    /\ log_files' = [log_files EXCEPT ![name] =
          [mtime |-> mtime,
           records |-> Append(@.records, [ts |-> ts, content |-> content])]]
    /\ UNCHANGED <<activities, scan_hours>>
    /\ UNCHANGED <<store_vars, scored, graph_vars, registry_vars,
                   snapshot_vars, engine_vars, auto_vars>>

\* An external agent has written a long text log.
WriteLongLog(name, mtime) ==
    /\ scan_hours = 0
    /\ log_files[name] = NoFile
    /\ log_files' = [log_files EXCEPT ![name] =
          [mtime |-> mtime,
           records |-> [i \in 1..(TextTail + 1) |->
                           [ts |-> NoTimestamp, content |-> "news"]]]]
    /\ UNCHANGED <<activities, scan_hours>>
    /\ UNCHANGED <<store_vars, scored, graph_vars, registry_vars,
                   snapshot_vars, engine_vars, auto_vars>>

\* ingester.scan_all(hours)
ScanAll(hours) ==
    /\ scan_hours = 0
    /\ activities' = scan_all(hours)
    /\ scan_hours' = hours
    /\ UNCHANGED log_files
    /\ UNCHANGED <<store_vars, scored, graph_vars, registry_vars,
                   snapshot_vars, engine_vars, auto_vars>>

NextScan ==
    \/ \E ts \in RawTimestamps, content \in RawContents, mtime \in Times :
          WriteRecord(Sources[1].name, ts, content, mtime)
    \/ \E content \in RawContents, mtime \in Times :
          WriteRecord(Sources[2].name, NoTimestamp, content, mtime)
    \/ \E mtime \in Times : WriteLongLog(Sources[2].name, mtime)
    \/ \E hours \in 1..MaxHours : ScanAll(hours)

SpecScan == Init /\ [][NextScan]_vars

(***************************************************************************)
(* Properties.                                                             *)
(***************************************************************************)
Idle == \A p \in Callers : pc[p] = "idle"

InteractionKeys == {Str(i.id) : i \in interactions}

\* C1: in every reachable state the vector index holds no record whose id
\* is not the id of an Interaction present in the episodic store.
C1_NoOrphanVector == VectorIds \subseteq InteractionKeys

\* C2: when no call is in flight (and, the specification being the
\* reliable one, nothing has failed) the vector index holds exactly one
\* record for each Interaction id and none for any other id.
C2_QuiescentStoresAgree ==
    Idle =>
        /\ VectorIds = InteractionKeys
        /\ \A j, k \in DOMAIN master_vectors :
              master_vectors[j].id = master_vectors[k].id => j = k

\* A consolidation has just pruned, and both stores still hold records.
C2_Witness ==
    /\ Idle
    /\ \E p \in Callers : result[p].num_pruned >= 1
    /\ Cardinality(interactions) >= 2
    /\ Len(master_vectors) >= 2

\* C3: when consolidate_memory has returned successfully for a
\* conversation, no Interaction of that conversation with a score below 0.1
\* is left in the episodic store.
C3_NoLowScoreAfterConsolidate ==
    \A p \in Callers :
        (/\ pc[p] = "idle"
         /\ result[p].tool = "consolidate_memory"
         /\ result[p].kind = "ok")
        => \A i \in interactions :
              i.conversation_id = result[p].conversation_id
                  => i.surprise_score >= PruneThreshold

\* A successful consolidation that removed a row of a conversation and left
\* another one of the same conversation.
C3_Witness ==
    \E p \in Callers :
        /\ pc[p] = "idle"
        /\ result[p].tool = "consolidate_memory"
        /\ result[p].kind = "ok"
        /\ result[p].sql_removed # {}
        /\ OfConversation(result[p].conversation_id) # {}

\* C4: the pruned count a consolidate call reports is the number of
\* identities the call removed from the vector index, and the number of
\* Interactions it removed from the episodic store.
C4_PrunedCountIsIndexCount ==
    \A p \in Callers :
        (result[p].tool = "consolidate_memory" /\ result[p].kind = "ok")
        => /\ result[p].num_pruned = Cardinality(result[p].vec_removed)
           /\ result[p].num_pruned = Cardinality(result[p].sql_removed)

\* C5: every identity ingest_interaction returns is greater than every
\* identity returned earlier, and no commit assigns an identity that was
\* assigned before.
C5_IdsMonotonic ==
    [][\A p \in Callers :
          /\ (pc[p] = "ingest_store" /\ pc'[p] = "ingest_index")
                => loc'[p].interaction_id \notin assigned
          /\ (pc[p] = "ingest_index" /\ result'[p].kind = "ok")
                => \A r \in returned : result'[p].interaction_id > r]_vars

\* C6: when the embedding provider fails during an ingest, both stores are
\* as they were when the call began.
C6_EmbeddingFailureRecordsNothing ==
    [][\A p \in Callers :
          (pc[p] = "ingest_index" /\ result'[p].error = "EmbeddingFailure")
          => /\ interactions' = loc[p].start_interactions
             /\ master_vectors' = loc[p].start_vectors]_vars

\* C7: when the index write of an ingest fails after the commit, the
\* Interaction stays and the call succeeds, returning its identity.
C7_IndexFailureStillSucceeds ==
    \A p \in Callers :
        (result[p].tool = "ingest_interaction" /\ result[p].error = "IndexFailure")
        => /\ result[p].interaction_id \in Ids(interactions)
           /\ result[p].kind = "ok"

\* C8: no tool call raises to its caller: each returns a success payload or
\* a failure value.
C8_NoToolRaises == \A p \in Callers : result[p].kind # "raised"

\* C9: an interaction committed into a conversation whose history is empty
\* has score exactly 1.0, whatever its content and whatever the other
\* conversations hold.
C9_FirstInteractionScoresOne ==
    [][\A r \in interactions' \ interactions :
          OfConversation(r.conversation_id) = {} => r.surprise_score = One]_vars

\* The first interaction of s2 was ingested while s1 already held one, both
\* with the same content.
C9_Witness ==
    \E a, b \in interactions :
        /\ a.conversation_id = "s1"
        /\ b.conversation_id = "s2"
        /\ a.id < b.id
        /\ a.content = b.content
        /\ OfConversation("s2") = {b}

\* C10: every score stored on an Interaction lies in [0, 1].
C10_ScoreInUnitInterval ==
    \A i \in interactions : 0 <= i.surprise_score /\ i.surprise_score <= One

\* C11: when two interactions about distinct topics are ingested, in order,
\* into a conversation that was empty, the score of the second is strictly
\* greater than the score of the first.
C11_SecondScoresHigher ==
    (/\ Len(scored) >= 2
     /\ Topic(scored[1].content) # Topic(scored[2].content))
    => scored[2].surprise_score > scored[1].surprise_score

\* The rows of a conversation in reverse order of their commits.  Calls
\* that run one after the other commit in the order of the ids they get:
\* each new id is larger than every id in the table.
NewestFirst(conversation_id) ==
    LET rows == OfConversation(conversation_id)
    IN  CHOOSE s \in [1..Cardinality(rows) -> rows] :
            \A i, j \in DOMAIN s : i < j => s[i].id > s[j].id

\* C12: after N ingests into a conversation, one after the other,
\* retrieve_episodic(conversation, N) returns all N in reverse order of
\* ingestion and retrieve_episodic(conversation, k) for k < N returns
\* exactly the k most recently ingested, also when several interactions
\* carry the same timestamp.
C12_RetrieveNewestFirst ==
    \A conversation_id \in Conversations :
        \A k \in 1..Cardinality(OfConversation(conversation_id)) :
            \A rows \in retrieve_episodic_rows(conversation_id, k) :
                rows = SubSeq(NewestFirst(conversation_id), 1, k)

\* C13: once an ingest has returned, retrieve_episodic on its conversation
\* observes the interaction, and the interactions come in the order of
\* their commits, newest commit first, also when the ingests of concurrent
\* callers interleave between stamping and committing.  (No row is deleted
\* under SpecConcurrent, so a later commit has a larger id; rows of equal
\* timestamp are left aside here.)
C13_CommitOrderNewestFirst ==
    \A conversation_id \in Conversations :
        \A rows \in retrieve_episodic_rows(conversation_id, HistoryLimit) :
            /\ \A p \in Callers :
                  (/\ pc[p] = "idle"
                   /\ result[p].tool = "ingest_interaction"
                   /\ result[p].kind = "ok"
                   /\ result[p].conversation_id = conversation_id)
                  => \E k \in DOMAIN rows : rows[k].id = result[p].interaction_id
            /\ \A i, j \in DOMAIN rows :
                  i < j => \/ rows[i].timestamp = rows[j].timestamp
                           \/ rows[i].id > rows[j].id

\* C14: when an ingest has returned an identity, the vector index holds a
\* record with that identity and exactly the ingested content, and a
\* search whose query is that content, with any limit of 1 or more,
\* returns that content.
C14_IngestRoundTrip ==
    \A p \in Callers :
        (/\ pc[p] = "idle"
         /\ result[p].tool = "ingest_interaction"
         /\ result[p].kind = "ok")
        => \E i \in interactions :
              /\ i.id = result[p].interaction_id
              /\ \E k \in DOMAIN master_vectors :
                    /\ master_vectors[k].id = Str(i.id)
                    /\ master_vectors[k].content = i.content
              /\ \A limit \in 1..Len(master_vectors) :
                    \A hits \in search(i.content, limit) :
                        \E h \in DOMAIN hits : hits[h].content = i.content

\* An ingest has returned an identity under which the index also holds an
\* older record with another content.
C14_Witness ==
    \E p \in Callers :
        /\ pc[p] = "idle"
        /\ result[p].tool = "ingest_interaction"
        /\ result[p].kind = "ok"
        /\ \E j, k \in DOMAIN master_vectors :
              /\ master_vectors[j].id = Str(result[p].interaction_id)
              /\ master_vectors[k].id = Str(result[p].interaction_id)
              /\ master_vectors[j].content # master_vectors[k].content

\* The traversals of given tables from every entity (and from one that no
\* node has), for every depth up to MaxDepth.
Traversals(node_rows, edge_rows) ==
    [start_entity \in Entities \cup {Unknown}, max_depth \in 0..MaxDepth |->
        TraverseRows(node_rows, edge_rows, start_entity, max_depth)]

\* C15: add_knowledge_edge with a source or target entity that no node has
\* fails with an error, creates no edge and no node, and leaves the result
\* of every traverse_graph unchanged.
C15_UnresolvedEdgeFails ==
    [][\A p \in Callers :
          (/\ gpc[p] = "edge_write"
           /\ gpc'[p] = "idle"
           /\ \/ ~ \E n \in nodes : n.entity = gloc[p].source_entity
              \/ ~ \E n \in nodes : n.entity = gloc[p].target_entity)
          => /\ gresult'[p].tool = "add_knowledge_edge"
             /\ gresult'[p].kind = "failure"
             /\ edges' = edges
             /\ nodes' = nodes
             /\ Traversals(nodes', edges') = Traversals(nodes, edges)]_vars

\* An add_knowledge_edge has failed on a graph that has an edge.
C15_Witness ==
    \E p \in Callers :
        /\ gresult[p].tool = "add_knowledge_edge"
        /\ gresult[p].kind = "failure"
        /\ edges # {}
        /\ \E e \in Entities : traverse_graph(e, MaxDepth) # <<>>

\* C16: the source_id and the target_id of every stored edge are ids of
\* stored nodes, namely of the nodes of the source and target entities that
\* the call which created the edge named.
C16_EdgeEndsExist ==
    [][\A e \in edges' :
          /\ e.source_id \in NodeIds'
          /\ e.target_id \in NodeIds'
          /\ e \notin edges =>
                \E p \in Callers :
                    /\ gpc[p] = "edge_write"
                    /\ gpc'[p] = "idle"
                    /\ \E s, t \in nodes' :
                          /\ s.id = e.source_id
                          /\ s.entity = gloc[p].source_entity
                          /\ t.id = e.target_id
                          /\ t.entity = gloc[p].target_entity]_vars

\* The graph holds an edge between two different nodes.
C16_Witness == \E e \in edges : e.source_id # e.target_id

\* C17: add_knowledge_node on an entity that has a node creates no node
\* and returns that node's id; the node's description becomes the old one,
\* the separator, the new one; its attributes are merged key by key, the
\* new value winning and the keys absent from the call all retained.
C17_UpsertMerges ==
    [][\A p \in Callers :
          (/\ gpc[p] = "node_write"
           /\ gpc'[p] = "idle"
           /\ \E n \in nodes : n.entity = gloc[p].entity)
          => LET old == CHOOSE n \in nodes : n.entity = gloc[p].entity
                 node_data == gloc[p].node_data
             IN  /\ NodeIds' = NodeIds
                 /\ Cardinality(nodes') = Cardinality(nodes)
                 /\ gresult'[p].kind = "ok"
                 /\ gresult'[p].id = old.id
                 /\ nodes \ {old} \subseteq nodes'
                 /\ \E new \in nodes' :
                       /\ new.id = old.id
                       /\ new.entity = old.entity
                       /\ new.description =
                             old.description
                                 \o <<Separator, gloc[p].description>>
                       /\ DOMAIN new.node_data =
                             DOMAIN old.node_data \cup DOMAIN node_data
                       /\ \A k \in DOMAIN node_data :
                             new.node_data[k] = node_data[k]
                       /\ \A k \in DOMAIN old.node_data \ DOMAIN node_data :
                             new.node_data[k] = old.node_data[k]]_vars

\* A node was upserted: it has two descriptions, an attribute that the
\* second call replaced and one that it did not name.
C17_Witness ==
    \E n \in nodes :
        /\ Len(n.description) = 3
        /\ n.description[1] # n.description[3]
        /\ n.node_data = [color |-> "blue", size |-> "big"]

GraphIdle == \A p \in Callers : gpc[p] = "idle"

RECURSIVE DescriptionsHeld(_)
\* How many descriptions the nodes of a set hold between them: a
\* description of n pieces has n - 1 separators.
DescriptionsHeld(node_rows) ==
    IF node_rows = {} THEN 0
    ELSE LET n == CHOOSE r \in node_rows : TRUE
         IN  (Len(n.description) + 1) \div 2 + DescriptionsHeld(node_rows \ {n})

\* C18: under concurrent add_knowledge_node calls no entity ever has more
\* than one node, and when all calls have returned, the descriptions of the
\* nodes contain every description passed in a call: as many as calls were
\* made.
C18_ConcurrentUpsertsSerialized ==
    /\ \A a, b \in nodes : a.entity = b.entity => a = b
    /\ GraphIdle => DescriptionsHeld(nodes) = node_calls

\* No entity is the target of two results, and the start is the target of
\* none.
TargetsOnce(start_entity, results) ==
    /\ \A i, j \in DOMAIN results :
          results[i].target = results[j].target => i = j
    /\ \A i \in DOMAIN results : results[i].target # start_entity

\* C19: traverse_graph terminates on every finite graph, cycles and
\* self-loops included, for every max_depth; in what it has collected, and
\* so in what it returns, every node is a target at most once and the start
\* node never.
C19_TraverseTerminates ==
    /\ [](\A p \in Callers :
            /\ gpc[p] \in {"traverse", "traverse_edges"} =>
                  TargetsOnce(gloc[p].entity, gloc[p].results)
            /\ gresult[p].tool = "traverse_graph" =>
                  TargetsOnce(gresult[p].start_entity, gresult[p].results))
    /\ \A p \in Server :
          (gpc[p] \in {"traverse", "traverse_edges"}) ~> (gpc[p] = "idle")

\* A traversal has returned two targets on a graph with an edge back into
\* its start node and with a self-loop.
C19_Witness ==
    \E p \in Callers :
        /\ gresult[p].tool = "traverse_graph"
        /\ Len(gresult[p].results) = 2
        /\ \E e \in edges :
              /\ e.source_id # e.target_id
              /\ NodeById(nodes, e.target_id).entity = gresult[p].start_entity

\* C20: two calls of get_conversation_id for the same project with no
\* reset between them return the same id, also when the process was
\* started again between the two.
C20_ResolveIdempotent ==
    \A project \in Projects :
        \A a, b \in resolved[project] : a[1] = b[1]

\* A project's id was resolved by two incarnations of the process, with no
\* reset between, while the registry also holds the other project.
C20_Witness ==
    \E project \in Projects :
        /\ \E a, b \in resolved[project] : a[2] # b[2]
        /\ DOMAIN registry = Projects

\* C21: with several processes sharing the registry file, one call at a
\* time, every id that get_conversation_id returned for a project since the
\* project's last reset_conversation_id is the id the registry holds for
\* the project, which is the id that reset generated.
C21_ResolveFollowsReset ==
    \A project \in Projects :
        project \in DOMAIN registry =>
            \A a \in resolved[project] : a[1] = registry[project]

\* C22: when all calls have returned, every id that get_conversation_id
\* returned for a project, with no reset of it, is the one id the registry
\* holds for the project.
C22_ConcurrentResolveAgrees ==
    (\A p \in Callers : rpc[p] = "idle") =>
        \A project \in Projects :
            /\ \A a, b \in resolved[project] : a[1] = b[1]
            /\ \A a \in resolved[project] :
                  project \in DOMAIN registry /\ registry[project] = a[1]

\* C23: a root without .git holds no checkpoint; the construction of an
\* engine on it creates exactly one checkpoint, "Initial memory state",
\* with no parent, and the construction on a root with .git creates none.
C23_InitialCheckpoint ==
    /\ [](~git_dir => commits = <<>> /\ head = Unborn)
    /\ [][\A p \in Server :
            (~constructed[p] /\ constructed'[p]) =>
                IF sloc[p].initial
                THEN /\ commits = <<>>
                     /\ commits' = <<NewCommit(<<>>, InitialMessage,
                                               sloc[p].tree)>>
                     /\ head' = 1
                ELSE /\ git_dir
                     /\ commits' = commits
                     /\ head' = head]_vars

\* An engine was constructed on a fresh root, and after a restart of the
\* process another on the root with its history: the initial checkpoint is
\* the only one.
C23_Witness ==
    /\ constructed["c1"]
    /\ spc["c1"] = "idle"
    /\ sresult["c1"] = "none"
    /\ commits = <<NewCommit(<<>>, InitialMessage, 0)>>
    /\ head = 1

\* The commits met by following first parents from commit c, at most
\* fuel of them.
RECURSIVE Ancestry(_, _)
Ancestry(c, fuel) ==
    IF c = Unborn \/ fuel = 0 THEN <<>>
    ELSE <<c>> \o Ancestry(IF commits[c].parents = <<>> THEN Unborn
                           ELSE commits[c].parents[1], fuel - 1)

\* C24: the checkpoints form one chain: following parents from the head
\* visits every commit once and ends at the one commit without parent;
\* and a step that changes the commits appends one commit whose parent is
\* the head of before, moves the head to it and leaves the others alone.
C24_LinearHistory ==
    /\ [](LET chain == Ancestry(head, Len(commits) + 1)
          IN  /\ Len(chain) = Len(commits)
              /\ {chain[i] : i \in DOMAIN chain} = DOMAIN commits
              /\ \A c \in DOMAIN commits :
                    (commits[c].parents = <<>>) <=> (c = chain[Len(chain)]))
    /\ [][commits' # commits =>
            /\ Len(commits') = Len(commits) + 1
            /\ SubSeq(commits', 1, Len(commits)) = commits
            /\ commits'[Len(commits')].parents = Parent
            /\ head' = Len(commits')]_vars

\* Three checkpoints were taken, two of them of the same files.
C24_Witness ==
    /\ Len(commits) = 3
    /\ head = 3
    /\ commits[2].tree = commits[1].tree
    /\ commits[3].tree # commits[2].tree

\* C25: a call of engine.snapshot ends either with a new commit and the
\* head on it, or with a reported failure, the commits and the head as
\* they were.
C25_FailureKeepsHead ==
    [][\A p \in Server :
         (spc[p] # "idle" /\ spc'[p] = "idle") =>
            \/ /\ sresult'[p] = "ok"
               /\ Len(commits') = Len(commits) + 1
               /\ head' = Len(commits')
            \/ /\ sresult'[p] = "failed"
               /\ commits' = commits
               /\ head' = head]_vars

\* A snapshot failed after it had written the index: the index stages
\* another tree than the head's commit holds.
C25_Witness ==
    /\ sresult["c1"] = "failed"
    /\ head # Unborn
    /\ index # commits[head].tree

\* C26: two calls of engine.snapshot are never both between the read of
\* the head and create_commit with the same commit as parent.
C26_OneCheckpointInFlight ==
    \A p, q \in Callers :
        (p # q /\ spc[p] = "commit" /\ spc[q] = "commit"
               /\ sloc[p].parent # <<>>) =>
            sloc[p].parent # sloc[q].parent

\* C27: get_engine() constructs a MemoryEngine only while the global is
\* None, and all tasks of the process that called get_engine() hold the
\* one instance the global holds.
C27_EngineConstructedOnce ==
    /\ [](\A t \in Tasks :
            handle[t] \notin {NoEngine, Raised} => handle[t] = engine)
    /\ [][engines_made' # engines_made =>
            /\ engine = NoEngine
            /\ engines_made' = engines_made + 1
            /\ engine' = engines_made']_vars

\* All tasks called get_engine() in the second life of the process, one of
\* them first when the constructor raised.
C27_Witness ==
    /\ engines_made = 2
    /\ \A t \in Tasks : handle[t] = engine
    /\ git_dir
    /\ commits = <<>>

\* The rows of the conversation with the role and the content.
Logged(conversation_id, role, content) ==
    {i \in OfConversation(conversation_id) :
        i.role = role /\ i.content = content}

ItemsOf(name, i) ==
    {k \in DOMAIN activities :
        activities[k].source = name /\ activities[k].origin = i}

\* C29: after scan_all(hours), no item stems from a record of the
\* JSON-lines source whose mapped timestamp is a time before the cutoff,
\* whenever its file was modified.
C29_OldRecordsNeverReturned ==
    scan_hours # 0 =>
        \A i \in DOMAIN log_files[Sources[1].name].records :
            LET ts == log_files[Sources[1].name].records[i].ts
            IN  (ts \in Times /\ ts < CutoffTs(scan_hours)) =>
                    ItemsOf(Sources[1].name, i) = {}

\* What retrieve_episodic(conversation_id, limit) may return on the rows.
Recent(rows, conversation_id, limit) ==
    LET mine == {i \in rows : i.conversation_id = conversation_id}
        n == IF Cardinality(mine) < limit THEN Cardinality(mine) ELSE limit
    IN  {S \in SUBSET mine :
            /\ Cardinality(S) = n
            /\ \A a \in S : \A b \in mine \ S : a.timestamp >= b.timestamp}

\* A step of a call of consolidate_memory by process p.
InConsolidate(p) ==
    \/ pc[p] \in {"prune_store", "prune_index"}
    \/ pc[p] = "idle" /\ pc'[p] = "prune_store"

\* C30: a call of consolidate_memory that returns its summary promotes the
\* interactions with a score above 0.5 among the 100 most recent ones of
\* the conversation as they were when the call began, and no others; all
\* of them are still stored when it returns; and no step of the call
\* changes the nodes or the edges of the knowledge graph.
C30_PromotedExact ==
    [][\A p \in Server :
         /\ InConsolidate(p) => UNCHANGED <<nodes, edges>>
         /\ (/\ pc[p] \in {"prune_store", "prune_index"}
             /\ pc'[p] = "idle"
             /\ result'[p].tool = "consolidate_memory"
             /\ result'[p].kind = "ok") =>
                /\ \E history \in Recent(loc[p].start_interactions,
                                         loc[p].conversation_id,
                                         ConsolidateLimit) :
                      result'[p].high_surprise =
                          {h \in history :
                              h.surprise_score > PromoteThreshold}
                /\ result'[p].high_surprise \subseteq interactions']_vars

\* A call promoted an interaction and pruned another of the conversation,
\* next to a graph that holds nodes.
C30_Witness ==
    /\ result["c1"].tool = "consolidate_memory"
    /\ result["c1"].kind = "ok"
    /\ result["c1"].high_surprise # {}
    /\ result["c1"].num_pruned > 0
    /\ result["c1"].high_surprise \subseteq interactions
    /\ nodes # {}

\* C31: when the delete on the vector index fails, or the master table does
\* not exist, prune_interactions still returns: the call ends without an
\* error raised, the rows it deleted from the episodic store stay deleted,
\* and the count it returns is the number of those rows.
C31_IndexFailureKeepsPrune ==
    [][\A p \in Server :
         (/\ pc[p] = "prune_index"
          /\ pc'[p] = "idle"
          /\ result'[p].kind # "none"
          /\ result'[p].error = "IndexFailure" \/ ~table_exists) =>
            /\ result'[p].tool = "consolidate_memory"
            /\ result'[p].kind = "ok"
            /\ interactions' = interactions
            /\ interactions' \cap
                  ToPrune(loc[p].conversation_id, PruneThreshold) = {}
            /\ result'[p].num_pruned =
                  Cardinality(loc[p].start_interactions \ interactions')
            /\ result'[p].num_pruned > 0]_vars

\* A pruning call ended although the master table was never created: its
\* one row is gone from the episodic store and it reports one.
C31_Witness ==
    /\ ~table_exists
    /\ result["c1"].tool = "consolidate_memory"
    /\ result["c1"].kind = "ok"
    /\ result["c1"].error = "IndexFailure"
    /\ result["c1"].num_pruned = 1
    /\ Cardinality(interactions) = 1

RECURSIVE Within(_, _)
\* The ids of the nodes that a directed path of at most hops edges reaches
\* from the given ids.
Within(ids, hops) ==
    IF hops <= 0 THEN ids
    ELSE Within(ids \cup {e.target_id : e \in {x \in edges : x.source_id \in ids}},
                hops - 1)

\* The number of edges of a shortest directed path from one node to another
\* that it reaches.
HopDistance(from_id, to_id) ==
    CHOOSE k \in 0..Cardinality(nodes) :
        /\ to_id \in Within({from_id}, k)
        /\ \A j \in 0..(k - 1) : to_id \notin Within({from_id}, j)

\* The id of the node that holds the entity (entities are unique here).
IdOf(entity) == (CHOOSE n \in nodes : n.entity = entity).id

\* C32: what traverse_graph(start, max_depth) returns holds one entry for
\* each node other than start within max_depth hops of start and for no
\* other node; the entries come in non-decreasing hop distance; the source
\* of an entry is one hop nearer to start than its target and has an edge
\* to it; and max_depth = 0 or an unknown start gives the empty sequence.
C32_BreadthFirstWithinDepth ==
    [][\A p \in Server :
         /\ (gpc[p] = "traverse" /\ gpc'[p] = "idle") =>
               LET r == gresult'[p].results
                   start == IdOf(gloc[p].entity)
                   near == Within({start}, gloc[p].max_depth) \ {start}
                   dist(entity) == HopDistance(start, IdOf(entity))
               IN  /\ gresult'[p].kind = "ok"
                   /\ {IdOf(r[i].target) : i \in DOMAIN r} = near
                   /\ Len(r) = Cardinality(near)
                   /\ \A i, j \in DOMAIN r :
                         i < j => dist(r[i].target) <= dist(r[j].target)
                   /\ \A i \in DOMAIN r :
                         /\ dist(r[i].source) + 1 = dist(r[i].target)
                         /\ \E e \in edges :
                               /\ e.source_id = IdOf(r[i].source)
                               /\ e.target_id = IdOf(r[i].target)
                   /\ gloc[p].max_depth = 0 => r = <<>>
         /\ (/\ gpc[p] = "idle"
             /\ gpc'[p] = "idle"
             /\ gresult'[p].tool = "traverse_graph"
             /\ \A n \in nodes : n.entity # gresult'[p].start_entity) =>
               /\ gresult'[p].kind = "ok"
               /\ gresult'[p].results = <<>>]_vars

\* A traversal with max_depth 1 returned the neighbour of the start and
\* left out a node two hops away.
C32_Witness ==
    /\ gresult["c1"].tool = "traverse_graph"
    /\ gresult["c1"].kind = "ok"
    /\ Len(gresult["c1"].results) = 1
    /\ gresult["c1"].results[1].target = "B"
    /\ \E e \in edges : e.source_id = 1 /\ e.target_id = 2
    /\ \E e \in edges : e.source_id = 2 /\ e.target_id = 3
    /\ \A e \in edges : ~(e.source_id = 1 /\ e.target_id = 3)

\* C33: the score of an ingest depends only on its content and on the 50
\* most recent interactions of its conversation when it is called: two
\* calls in flight with the same content and conversation, begun on stores
\* that agree on those interactions, hold the same score, whatever else
\* the two stores contain.
C33_ScoreDependsOnHistoryOnly ==
    \A p, q \in Callers :
        (/\ pc[p] = "ingest_store"
         /\ pc[q] = "ingest_store"
         /\ loc[p].content = loc[q].content
         /\ loc[p].conversation_id = loc[q].conversation_id
         /\ Recent(loc[p].start_interactions, loc[p].conversation_id,
                   HistoryLimit)
              = Recent(loc[q].start_interactions, loc[q].conversation_id,
                       HistoryLimit)) =>
            loc[p].surprise_score = loc[q].surprise_score

\* Two calls hold a score for the same content and conversation; the
\* conversation held the same interaction when each began, and the stores
\* they began on differ in the other conversation.
C33_Witness ==
    /\ pc["c1"] = "ingest_store"
    /\ pc["c2"] = "ingest_store"
    /\ loc["c1"].content = loc["c2"].content
    /\ loc["c1"].conversation_id = "s1"
    /\ loc["c2"].conversation_id = "s1"
    /\ loc["c1"].start_interactions # loc["c2"].start_interactions
    /\ {i \in loc["c1"].start_interactions : i.conversation_id = "s1"} # {}
    /\ {i \in loc["c1"].start_interactions : i.conversation_id = "s1"}
         = {i \in loc["c2"].start_interactions : i.conversation_id = "s1"}
    /\ loc["c1"].surprise_score = loc["c2"].surprise_score

\* C34: when a historical vector has zero norm, the scorer leaves it out
\* and returns a number: 1 minus the largest similarity of the new content
\* to the other historical contents.
C34_ZeroNormExcluded ==
    \A k \in DOMAIN scored :
        LET historical_contents == {scored[j].content : j \in 1..(k - 1)}
            others == {h \in historical_contents : Norm(Embed(h)) # 0}
        IN  (/\ others # historical_contents
             /\ others # {}
             /\ Norm(Embed(scored[k].content)) # 0) =>
                /\ scored[k].surprise_score # NaN
                /\ scored[k].surprise_score =
                      One - MaxOf({CosineSimilarity(Embed(h),
                                                    Embed(scored[k].content)) :
                                      h \in others})

\* A step of a call of retrieve_memory by process p.
InRetrieve(p) ==
    \/ pc[p] = "retrieve_search"
    \/ pc[p] = "idle" /\ pc'[p] = "retrieve_search"

C36_ConversationKeepsFirst ==
    [][LET kept == {i.conversation_id :
                      i \in {j \in interactions' : j.surprise_score = One}}
       IN  /\ {i.conversation_id : i \in interactions} \subseteq kept
           /\ \A p \in Server :
                 (/\ result'[p].tool = "ingest_interaction"
                  /\ result'[p].kind = "ok") =>
                    result'[p].conversation_id \in kept]_vars

\* A consolidation pruned the repetitions of a conversation, two of them,
\* and the conversation is left with its first interaction alone.
C36_Witness ==
    /\ result["c1"].tool = "consolidate_memory"
    /\ result["c1"].kind = "ok"
    /\ result["c1"].num_pruned = 2
    /\ \E i \in interactions :
          /\ OfConversation(result["c1"].conversation_id) = {i}
          /\ i.surprise_score = One

\* The records of the vector index that belong to other conversations, in
\* their order.
OtherVectors(rows, conversation_id) ==
    SelectSeq(rows, LAMBDA v : v.conversation_id # conversation_id)

\* C37: a call of consolidate_memory on a conversation changes nothing of
\* the other conversations: each of its steps leaves their interactions
\* and their records in the vector index as they are.
C37_ConsolidateOnlyItsConversation ==
    [][\A p \in Server :
         pc[p] \in {"prune_store", "prune_index"} =>
            /\ {i \in interactions' :
                    i.conversation_id # loc[p].conversation_id}
                 = {i \in interactions :
                       i.conversation_id # loc[p].conversation_id}
            /\ OtherVectors(master_vectors', loc[p].conversation_id)
                 = OtherVectors(master_vectors, loc[p].conversation_id)]_vars

\* The state InitOrphan starts from is never reached from the empty
\* stores.  (It is: SpecIndexFails violates this after three ingests and a
\* pruning whose delete on the vector index fails.)
OrphanUnreached ==
    ~(/\ {[id |-> i.id, conversation_id |-> i.conversation_id,
           surprise_score |-> i.surprise_score] : i \in interactions}
         = {[id |-> 1, conversation_id |-> "s1", surprise_score |-> One],
            [id |-> 2, conversation_id |-> "s2", surprise_score |-> One]}
      /\ [k \in DOMAIN master_vectors |->
             <<master_vectors[k].id, master_vectors[k].conversation_id>>]
         = <<<<"1", "s1">>, <<"2", "s2">>, <<"3", "s2">>>>)

\* The entry the registry file holds for a project: its id, NoId when the
\* file holds none for it.
EntryOf(file, project) ==
    IF project \in DOMAIN file THEN file[project] ELSE NoId

\* C38: a resolve or a reset for one project leaves the entries that the
\* registry file holds for the other projects as they are: no step of the
\* call's save changes them, whatever other processes do between the
\* call's load and its save, and whether the file could be parsed or not.
C38_OtherEntriesUnchanged ==
    [][\A p \in Callers :
         (rpc[p] \in {"resolve_save", "reset_save"} /\ rpc'[p] = "idle") =>
            \A project \in Projects \ {cwd[p]} :
                EntryOf(registry', project) = EntryOf(registry, project)]_vars

====
